---- MODULE Spec2Model ----
(***************************************************************************)
(* Scene reconciliation of upload-scenes-to-sheet: the candidate rows of   *)
(* one scraped source are matched against the rows of a worksheet, and     *)
(* every candidate is updated in place, inserted into a free template row  *)
(* or dropped.  Cell text is a sequence of one-character strings, so that  *)
(* trimming, splitting, sorting and joining are computed, not assumed.     *)
(* A run starts from the list of (row, performer_links) pairs that         *)
(* main.py 142-156 builds from the scraped scenes.                         *)
(* FlattenSpec applies flatten_scene_to_row to the scenes of a scraped     *)
(* file, SparseSpec to one scene with missing and null keys; StateSpec is   *)
(* one run over worksheets of more kinds of rows; DurationSpec, MergeSpec  *)
(* and DisplaySpec call convert_duration, merge_urls and to_title_case on  *)
(* their own.                                                              *)
(***************************************************************************)
EXTENDS Integers, Sequences, FiniteSets, TLC

(***************************************************************************)
(* Bounds of the model.                                                    *)
(***************************************************************************)
MaxSheetRows == 2
MaxScenes == 2
MaxRuns == 2

(***************************************************************************)
(* Characters and text.  NBSP stands for U+00A0 and ZWSP for U+200B.       *)
(***************************************************************************)
NL == "\n"
NBSP == "_"
ZWSP == "^"

\* Python's None.  It is no text: its only element is not a character.
None == <<"NoneType">>

\* The characters str.strip() and str.split() treat as whitespace.
Whitespace == {" ", NL, NBSP}

\* Code-point order of the characters used, for sorted().
Ord(ch) ==
  CASE ch = NL -> 10
    [] ch = " " -> 32
    [] ch = "1" -> 49
    [] ch = "5" -> 53
    [] ch = "9" -> 57
    [] ch = "A" -> 65
    [] ch = "N" -> 78
    [] ch = "_" -> 160
    [] ch = "^" -> 8203
    [] ch = "a" -> 97
    [] ch = "b" -> 98
    [] ch = "c" -> 99
    [] ch = "d" -> 100
    [] ch = "e" -> 101
    [] ch = "m" -> 109
    [] ch = "n" -> 110
    [] ch = "o" -> 111
    [] ch = "p" -> 112
    [] ch = "s" -> 115
    [] ch = "t" -> 116
    [] ch = "{" -> 123
    [] ch = "}" -> 125
    [] OTHER -> 0

\* The cased letters and the digits.
LowerAlphabet ==
  <<"a", "b", "c", "d", "e", "f", "g", "h", "i", "j", "k", "l", "m",
    "n", "o", "p", "q", "r", "s", "t", "u", "v", "w", "x", "y", "z">>
UpperAlphabet ==
  <<"A", "B", "C", "D", "E", "F", "G", "H", "I", "J", "K", "L", "M",
    "N", "O", "P", "Q", "R", "S", "T", "U", "V", "W", "X", "Y", "Z">>
LowerLetters == {LowerAlphabet[k] : k \in 1..26}
UpperLetters == {UpperAlphabet[k] : k \in 1..26}
Digits == {"0", "1", "2", "3", "4", "5", "6", "7", "8", "9"}
LetterIndex(ch, alphabet) == CHOOSE k \in 1..26 : alphabet[k] = ch

\* str.lower() on one character.
Lower(ch) ==
  IF ch \in UpperLetters THEN LowerAlphabet[LetterIndex(ch, UpperAlphabet)] ELSE ch

\* str.upper() on one character.
Upper(ch) ==
  IF ch \in LowerLetters THEN UpperAlphabet[LetterIndex(ch, LowerAlphabet)] ELSE ch

LowerText(s) == [k \in 1..Len(s) |-> Lower(s[k])]

\* str.replace(ch, "")
RemoveChars(s, chars) == SelectSeq(s, LAMBDA ch : ch \notin chars)

\* str.replace(a, b) for single characters
ReplaceChar(s, a, b) == [k \in 1..Len(s) |-> IF s[k] = a THEN b ELSE s[k]]

\* A text is a sequence of characters.  The recursions over texts are
\* recursive functions, whose arguments are values.
Text == Seq(STRING)

LStripOf[s \in Text] ==
  IF s = <<>> THEN <<>>
  ELSE IF Head(s) \in Whitespace THEN LStripOf[Tail(s)] ELSE s

LStrip(s) == LStripOf[s]

RStripOf[s \in Text] ==
  IF s = <<>> THEN <<>>
  ELSE IF s[Len(s)] \in Whitespace THEN RStripOf[SubSeq(s, 1, Len(s) - 1)] ELSE s

RStrip(s) == RStripOf[s]

\* str.strip()
Strip(s) == RStrip(LStrip(s))

\* str.split(sep) for a one-character separator: "" splits into [""].
SplitOnOf[s \in Text, sep \in STRING] ==
  IF \E k \in 1..Len(s) : s[k] = sep
  THEN LET k == CHOOSE j \in 1..Len(s) :
                  s[j] = sep /\ \A h \in 1..(j - 1) : s[h] # sep
       IN  <<SubSeq(s, 1, k - 1)>> \o SplitOnOf[SubSeq(s, k + 1, Len(s)), sep]
  ELSE <<s>>

SplitOn(s, sep) == SplitOnOf[s, sep]

\* str.split() with no argument: the maximal runs of non-whitespace.
\* t has no leading whitespace.
SplitWordsOf[t \in Text] ==
  IF t = <<>> THEN <<>>
  ELSE IF \E k \in 1..Len(t) : t[k] \in Whitespace
  THEN LET k == CHOOSE j \in 1..Len(t) :
                  t[j] \in Whitespace /\ \A h \in 1..(j - 1) : t[h] \notin Whitespace
       IN  <<SubSeq(t, 1, k - 1)>> \o SplitWordsOf[LStrip(SubSeq(t, k, Len(t)))]
  ELSE <<t>>

SplitWords(s) == SplitWordsOf[LStrip(s)]

\* sep.join(parts)
JoinOf[parts \in Seq(Text), sep \in STRING] ==
  IF parts = <<>> THEN <<>>
  ELSE IF Len(parts) = 1 THEN parts[1]
  ELSE parts[1] \o <<sep>> \o JoinOf[Tail(parts), sep]

Join(parts, sep) == JoinOf[parts, sep]

\* Python's < on str: lexicographic by code point, a proper prefix is smaller.
TextLessOf[a \in Text, b \in Text] ==
  IF b = <<>> THEN FALSE
  ELSE IF a = <<>> THEN TRUE
  ELSE IF Ord(Head(a)) # Ord(Head(b)) THEN Ord(Head(a)) < Ord(Head(b))
  ELSE TextLessOf[Tail(a), Tail(b)]

TextLess(a, b) == TextLessOf[a, b]

\* sorted(S) for a set of texts
SortedOf[S \in SUBSET Text] ==
  IF S = {} THEN <<>>
  ELSE LET m == CHOOSE x \in S : \A y \in S \ {x} : TextLess(x, y)
       IN  <<m>> \o SortedOf[S \ {m}]

Sorted(S) == SortedOf[S]

\* str(v)
Str(v) == IF v = None THEN <<"N", "o", "n", "e">> ELSE v

\* (v or "")
OrEmpty(v) == IF v = None THEN <<>> ELSE v

Range(f) == {f[k] : k \in DOMAIN f}

\* Python truth of a value that is None or a text.
Truthy(v) == v # None /\ v # <<>>

\* (a or b)
Or(a, b) == IF Truthy(a) THEN a ELSE b


(***************************************************************************)
(* Column layout.                                                          *)
(***************************************************************************)
\* main.MAX_COLS: the width candidate rows and sheet rows are padded to.
MAX_COLS == 23
\* sheet_state.MAX_COLS: the width the index builder pads rows to.
SHEET_MAX_COLS == 24

ID_INDEX == 0
SCENE_ID_INDEX == 2
THUMBNAIL_IMAGE_INDEX == 9
TELESAVE_INDEX == 11
QUALITY_INDEX == 13
TELELABEL_INDEX == 23
TRAILER_INDEX == 22

DATA18_URL_INDEX == 21
DURATION_INDEX == 15
\* Mutation: only the male list is a performer column.
PERFORMER_COLUMNS_male_only == {4}

PERFORMER_COLUMNS == {4, 5}

IGNORED_TEMPLATE_COLUMNS ==
  {ID_INDEX, THUMBNAIL_IMAGE_INDEX, TELESAVE_INDEX, QUALITY_INDEX, TELELABEL_INDEX}

UPDATEABLE_COLUMNS == {1} \cup (2..8) \cup {11} \cup (13..21)

\* Mutation: the label column is the one the insert path skips.
INSERT_SKIP_INDEX_label == TELELABEL_INDEX

\* The index main passes to write_new_row_from_template as "TeleLabel".
INSERT_SKIP_INDEX == 22

\* A row is a function from 0-based column indices to cell values.
Width(r) == Cardinality(DOMAIN r)

\* r + [""] * (n - len(r))
PadRow(r, n) ==
  IF Width(r) >= n THEN r
  ELSE [c \in 0..(n - 1) |-> IF c \in DOMAIN r THEN r[c] ELSE <<>>]

(***************************************************************************)
(* helpers.py                                                              *)
(***************************************************************************)
normalize_name(name) ==
  IF name = None THEN <<>>
  ELSE Join(SplitWords(LowerText(Strip(ReplaceChar(name, NBSP, " ")))), " ")

norm_scene_id(v) ==
  IF v = None THEN <<>>
  ELSE Join(SplitWords(Strip(RemoveChars(Str(v), {NBSP, ZWSP}))), " ")

\* " ".join(text.replace("\u00a0", " ").split())
normalize_whitespace(text) == Join(SplitWords(ReplaceChar(text, NBSP, " ")), " ")

\* word.isupper(), word.islower(): a cased character, and none of the other case.
IsUpperWord(word) ==
  /\ \E k \in DOMAIN word : word[k] \in UpperLetters
  /\ \A k \in DOMAIN word : word[k] \notin LowerLetters
IsLowerWord(word) ==
  /\ \E k \in DOMAIN word : word[k] \in LowerLetters
  /\ \A k \in DOMAIN word : word[k] \notin UpperLetters

\* word.title(): a letter after a non-letter is raised, any other lowered.
TitleWord(word) ==
  [k \in 1..Len(word) |->
     IF k = 1 \/ word[k - 1] \notin (LowerLetters \cup UpperLetters)
     THEN Upper(word[k]) ELSE Lower(word[k])]

\* Mutation: every word is title-cased.
FormatWordTitled(word) == TitleWord(word)

\* The word to_title_case puts in the place of word.
FormatWord(word) ==
  IF \E k \in DOMAIN word : word[k] \in Digits THEN word
  ELSE IF IsUpperWord(word) THEN word
  ELSE IF ~(IsLowerWord(word) \/ IsUpperWord(word)) THEN word
  ELSE TitleWord(word)

to_title_case(value) ==
  IF ~Truthy(value) THEN value
  ELSE LET words == SplitWords(RemoveChars(value, {"?"}))
       IN  Join([k \in 1..Len(words) |-> FormatWord(words[k])], " ")

NETWORK_DISPLAY_ALIASES ==
  (<<"f", "a", "n", "t", "a", "s", "y", " ", "m", "a", "s", "s", "a", "g", "e">>
     :> <<"A", "d", "u", "l", "t", " ", "T", "i", "m", "e", " ", "-", " ", "F", "a", "n", "t", "a", "s", "y", " ", "M", "a", "s", "s", "a", "g", "e">>)
  @@ (<<"g", "i", "r", "l", "s", "w", "a", "y">>
     :> <<"A", "d", "u", "l", "t", " ", "T", "i", "m", "e", " ", "-", " ", "G", "i", "r", "l", "s", "w", "a", "y">>)
  @@ (<<"v", "i", "x", "e", "n", " ", "m", "e", "d", "i", "a">>
     :> <<"V", "i", "x", "e", "n", " ", "M", "e", "d", "i", "a", " ", "G", "r", "o", "u", "p">>)

apply_network_alias(name) ==
  IF ~Truthy(name) THEN <<>>
  ELSE IF LowerText(Strip(name)) \in DOMAIN NETWORK_DISPLAY_ALIASES
       THEN NETWORK_DISPLAY_ALIASES[LowerText(Strip(name))]
       ELSE name

\* text.replace(chr(34), chr(34) * 2)
DoubleQuotesOf[s \in Text] ==
  IF s = <<>> THEN <<>>
  ELSE (IF Head(s) = "\"" THEN <<"\"", "\"">> ELSE <<Head(s)>>)
       \o DoubleQuotesOf[Tail(s)]

DoubleQuotes(s) == DoubleQuotesOf[s]

make_hyperlink(url, text, enabled) ==
  IF enabled /\ Truthy(url)
  THEN <<"=", "H", "Y", "P", "E", "R", "L", "I", "N", "K", "(", "\"">> \o DoubleQuotes(url)
       \o <<"\"", ",", " ", "\"">> \o DoubleQuotes(text) \o <<"\"", ")">>
  ELSE text


\* sep.join(parts) for a separator of any length
JoinTextOf[parts \in Seq(Text), sep \in Text] ==
  IF parts = <<>> THEN <<>>
  ELSE IF Len(parts) = 1 THEN parts[1]
  ELSE parts[1] \o sep \o JoinTextOf[Tail(parts), sep]

JoinText(parts, sep) == JoinTextOf[parts, sep]

DigitSeq == <<"0", "1", "2", "3", "4", "5", "6", "7", "8", "9">>
DigitValue(ch) == (CHOOSE k \in 1..10 : DigitSeq[k] = ch) - 1

\* int(digits)
IntOf[digits \in Text] ==
  IF digits = <<>> THEN 0
  ELSE 10 * IntOf[SubSeq(digits, 1, Len(digits) - 1)] + DigitValue(digits[Len(digits)])

\* str(n) for a natural number
IntTextOf[n \in Nat] ==
  IF n < 10 THEN <<DigitSeq[n + 1]>>
  ELSE IntTextOf[n \div 10] \o <<DigitSeq[(n % 10) + 1]>>

IntText(n) == IntTextOf[n]

AllDigits(s) == \A k \in DOMAIN s : s[k] \in Digits

\* re.match(r"^(\d+):(\d{2})(?::(\d{2}))?$", duration)
IsClockText(duration) ==
  LET parts == SplitOn(duration, ":")
  IN  /\ Len(parts) \in {2, 3}
      /\ \A k \in DOMAIN parts : AllDigits(parts[k])
      /\ Len(parts[1]) >= 1
      /\ \A k \in 2..Len(parts) : Len(parts[k]) = 2

\* The regex class \w, without the underscore.
WordChars == LowerLetters \cup UpperLetters \cup Digits
UnitWords == {<<"h", "r">>, <<"m", "i", "n">>, <<"s", "e", "c">>}

\* re.search(r"\b(hr|min|sec)\b", duration)
HasUnitWord(duration) ==
  \E u \in UnitWords : \E k \in 1..Len(duration) :
    /\ k + Len(u) - 1 <= Len(duration)
    /\ SubSeq(duration, k, k + Len(u) - 1) = u
    /\ (k = 1 \/ duration[k - 1] \notin WordChars)
    /\ (k + Len(u) - 1 = Len(duration) \/ duration[k + Len(u)] \notin WordChars)

\* re.sub(r"^0 hr,\s*", "", duration).strip()
DropZeroHours(duration) ==
  IF Len(duration) >= 5 /\ SubSeq(duration, 1, 5) = <<"0", " ", "h", "r", ",">>
  THEN Strip(SubSeq(duration, 6, Len(duration)))
  ELSE Strip(duration)

\* ", ".join(parts) of the components that are not zero
DurationParts(h, m, sec) ==
  JoinText((IF h # 0 THEN <<IntText(h) \o <<" ", "h", "r">>>> ELSE <<>>)
           \o (IF m # 0 THEN <<IntText(m) \o <<" ", "m", "i", "n">>>> ELSE <<>>)
           \o (IF sec # 0 THEN <<IntText(sec) \o <<" ", "s", "e", "c">>>> ELSE <<>>),
           <<",", " ">>)

\* Mutation: the minutes of M:SS are not split into hours.
SplitMinutesNever(mins) == <<0, mins>>

\* hrs = mins // 60; mins %= 60
SplitMinutes(mins) == <<mins \div 60, mins % 60>>

convert_duration(duration) ==
  IF duration = None \/ Strip(duration) = <<>> THEN <<>>
  ELSE LET d == Strip(duration)
           parts == SplitOn(d, ":")
       IN  IF IsClockText(d)
           THEN IF Len(parts) = 3
                THEN DurationParts(IntOf[parts[1]], IntOf[parts[2]], IntOf[parts[3]])
                ELSE DurationParts(SplitMinutes(IntOf[parts[1]])[1],
                                   SplitMinutes(IntOf[parts[1]])[2],
                                   IntOf[parts[2]])
           ELSE IF HasUnitWord(d) THEN DropZeroHours(d)
           ELSE d


(***************************************************************************)
(* sheet_state.py                                                          *)
(***************************************************************************)
\* existing_rows is the list of data rows; its k-th element (k from 1) is
\* sheet row k + 1, the header being row 1.
RowNumbers(existing_rows) == {k + 1 : k \in 1..Len(existing_rows)}

IndexedSid(existing_rows, rnum) ==
  norm_scene_id(PadRow(existing_rows[rnum - 1], SHEET_MAX_COLS)[SCENE_ID_INDEX])

\* Mutation: the first row holding a sid is kept.
build_sceneid_index_first(existing_rows) ==
  LET sids == {IndexedSid(existing_rows, i) : i \in RowNumbers(existing_rows)} \ {<<>>}
  IN  [sid \in sids |->
         CHOOSE i \in RowNumbers(existing_rows) :
           /\ IndexedSid(existing_rows, i) = sid
           /\ \A j \in RowNumbers(existing_rows) :
                IndexedSid(existing_rows, j) = sid => j >= i]

\* index[sid] = i for every row in order, so the last row holding a sid wins.
build_sceneid_index(existing_rows) ==
  LET sids == {IndexedSid(existing_rows, i) : i \in RowNumbers(existing_rows)} \ {<<>>}
  IN  [sid \in sids |->
         CHOOSE i \in RowNumbers(existing_rows) :
           /\ IndexedSid(existing_rows, i) = sid
           /\ \A j \in RowNumbers(existing_rows) :
                IndexedSid(existing_rows, j) = sid => j <= i]

\* Mutation: every row is reusable.
IsTemplateRowAlways(row) == TRUE

\* Mutation: the allowed columns have to be empty too.
IsTemplateRowBlank(row) ==
  \A idx \in DOMAIN row : Strip(Str(row[idx])) = <<>>

IsTemplateRow(row) ==
  LET r == PadRow(row, SHEET_MAX_COLS)
  IN  \A idx \in DOMAIN r :
        idx \in IGNORED_TEMPLATE_COLUMNS \/ Strip(Str(r[idx])) = <<>>

RECURSIVE FreeFrom(_, _)
FreeFrom(existing_rows, k) ==
  IF k > Len(existing_rows) THEN <<>>
  ELSE (IF IsTemplateRow(existing_rows[k]) THEN <<k + 1>> ELSE <<>>)
       \o FreeFrom(existing_rows, k + 1)

\* Mutation: the list is in descending row order.
find_empty_template_rows_descending(existing_rows) ==
  LET free == FreeFrom(existing_rows, 1)
  IN  [k \in 1..Len(free) |-> free[Len(free) + 1 - k]]

find_empty_template_rows(existing_rows) == FreeFrom(existing_rows, 1)

(***************************************************************************)
(* sheet_writer.py                                                         *)
(***************************************************************************)
\* {u.strip() for u in str(v).split("\n") if u.strip()}
UrlSet(v) == {Strip(u) : u \in Range(SplitOn(Str(v), NL))} \ {<<>>}

\* Mutation: the new URLs are appended to the old ones, not united with them.
merge_urls_appending(old, new) ==
  Join(Sorted(UrlSet(old)) \o Sorted(UrlSet(new)), NL)

\* Mutation: the old URLs are dropped.
merge_urls_new_only(old, new) == Join(Sorted(UrlSet(new)), NL)

merge_urls(old, new) == Join(Sorted(UrlSet(old) \cup UrlSet(new)), NL)

Get(map, key) == IF key \in DOMAIN map THEN map[key] ELSE None

RECURSIVE TextRuns(_, _, _)
TextRuns(lines, index, performer_url_map) ==
  IF lines = <<>> THEN <<>>
  ELSE LET line == Head(lines)
           name == Strip(SplitOn(line, "{")[1])
           url  == Get(performer_url_map, normalize_name(name))
           run  == [startIndex |-> index, uri |-> url]
       IN  <<run>> \o TextRuns(Tail(lines),
                               index + Len(line) + (IF Len(lines) > 1 THEN 1 ELSE 0),
                               performer_url_map)

build_performer_rich_text_request(row, col, cell_text, performer_url_map) ==
  [ stringValue    |-> cell_text,
    textFormatRuns |-> TextRuns(SplitOn(cell_text, NL), 0, performer_url_map),
    rowIndex       |-> row - 1,
    columnIndex    |-> col - 1 ]

Cell(row, col, value) == [row |-> row, col |-> col, value |-> value]

\* Mutation: every performer column goes to the rich-text path.
IsPerformerRichTextAlways(c, new_val) == c \in PERFORMER_COLUMNS

IsPerformerRichText(c, new_val) ==
  c \in PERFORMER_COLUMNS /\ new_val # None /\ Strip(new_val) # <<>>

\* Mutation: the default rule writes (new_val or "").
OverwriteValueOrEmpty(new_val) == OrEmpty(new_val)

\* Cell(..., value=new_val) of the default rule
OverwriteValue(new_val) == new_val

\* Mutation: the existing duration is not looked at.
DurationHeldNever(old_val) == FALSE

\* if str(old_val).strip(): continue
DurationHeld(old_val) == Strip(Str(old_val)) # <<>>

\* Mutation: None and "" are told apart.
ValuesDifferStrict(new_val, old_val) == new_val # old_val

\* if (new_val or "") != (old_val or ""):
ValuesDiffer(new_val, old_val) == OrEmpty(new_val) # OrEmpty(old_val)

\* The plain writes update_existing_row enqueues for column c.
UpdateCellsFor(c, target_rownum, new_val, old_val) ==
  IF IsPerformerRichText(c, new_val) THEN <<>>
  ELSE IF c = DURATION_INDEX THEN
    IF DurationHeld(old_val) THEN <<>>
    ELSE IF Strip(Str(new_val)) # <<>> THEN <<Cell(target_rownum, c + 1, new_val)>>
    ELSE <<>>
  ELSE IF c = DATA18_URL_INDEX THEN
    IF merge_urls(old_val, new_val) # OrEmpty(old_val)
    THEN <<Cell(target_rownum, c + 1, merge_urls(old_val, new_val))>>
    ELSE <<>>
  ELSE IF ValuesDiffer(new_val, old_val)
    THEN <<Cell(target_rownum, c + 1, OverwriteValue(new_val))>>
    ELSE <<>>

\* The rich-text requests update_existing_row enqueues for column c.
UpdateRichFor(c, target_rownum, new_val, performer_url_map) ==
  IF IsPerformerRichText(c, new_val)
  THEN <<build_performer_rich_text_request(target_rownum, c + 1, new_val,
                                           performer_url_map)>>
  ELSE <<>>

\* Mutation: the loop visits every column of the row.
ColumnsToUpdateAll(updateable_columns) == 0..(MAX_COLS - 1)

\* The columns the loop of update_existing_row visits, in ascending order.
ColumnsToUpdate(updateable_columns) == updateable_columns

RECURSIVE update_existing_row_cells(_, _, _, _, _)
update_existing_row_cells(c, target_rownum, new_row, old_row, updateable_columns) ==
  IF c > 23 THEN <<>>
  ELSE (IF c \in ColumnsToUpdate(updateable_columns)
        THEN UpdateCellsFor(c, target_rownum, new_row[c], old_row[c])
        ELSE <<>>)
       \o update_existing_row_cells(c + 1, target_rownum, new_row, old_row,
                                    updateable_columns)

RECURSIVE update_existing_row_rich(_, _, _, _, _)
update_existing_row_rich(c, target_rownum, new_row, updateable_columns, performer_url_map) ==
  IF c > 23 THEN <<>>
  ELSE (IF c \in ColumnsToUpdate(updateable_columns)
        THEN UpdateRichFor(c, target_rownum, new_row[c], performer_url_map)
        ELSE <<>>)
       \o update_existing_row_rich(c + 1, target_rownum, new_row, updateable_columns,
                                   performer_url_map)

RECURSIVE write_new_row_from_template(_, _, _, _)
write_new_row_from_template(c, sheet_rownum, row_with_offset, telelabel_index) ==
  IF c >= Width(row_with_offset) THEN <<>>
  ELSE (IF c = telelabel_index THEN <<>>
        ELSE <<Cell(sheet_rownum, c + 1, row_with_offset[c])>>)
       \o write_new_row_from_template(c + 1, sheet_rownum, row_with_offset,
                                      telelabel_index)


(***************************************************************************)
(* scene_flatten.py.  A scene holds its entities as (name, pair_url)       *)
(* records, None standing for a missing key, and its performers as a list  *)
(* of (name, scenes_count, pair_url) records.                              *)
(***************************************************************************)
\* dict.get(key, "")
GetOrEmpty(map, key) == IF key \in DOMAIN map THEN map[key] ELSE <<>>

\* to_title_case(apply_network_alias(name))
DisplayName(name) == to_title_case(apply_network_alias(name))

\* Mutation: the URL is never used.
LinkedNamePlain(name, url, enabled) == DisplayName(name)

\* make_hyperlink(url, text, enabled) if url else text
LinkedName(name, url, enabled) ==
  IF Truthy(url) THEN make_hyperlink(url, DisplayName(name), enabled)
  ELSE DisplayName(name)

\* name = (performer.get("name") or "").strip(), and the display text
PerformerName(performer) == Strip(Or(performer.name, <<>>))
PerformerDisplay(performer) ==
  PerformerName(performer) \o <<" ", "{">>
    \o Strip(Or(performer.scenes_count, <<"1">>)) \o <<"}">>

\* Mutation: the trans set is looked at before the male set.
IsMaleUnlessTrans(norm, male_performers, trans_performers) ==
  norm \in male_performers /\ norm \notin trans_performers

\* if norm in male_performers: males.append(display)
IsMale(norm, male_performers, trans_performers) == norm \in male_performers

\* The line a performer adds to the list it is appended to.
PerformerLine(performer, male_performers, trans_performers) ==
  LET norm == normalize_name(PerformerName(performer))
  IN  IF IsMale(norm, male_performers, trans_performers)
      THEN PerformerDisplay(performer)
      ELSE IF norm \in trans_performers
      THEN PerformerDisplay(performer) \o <<" ", "(", "T", "r", "a", "n", "s", ")">>
      ELSE PerformerDisplay(performer)

\* The list males (is_male) or females after the loop over the performers.
PerformerList(performers, is_male, male_performers, trans_performers) ==
  LET chosen == SelectSeq(performers,
                  LAMBDA p : IsMale(normalize_name(PerformerName(p)),
                                    male_performers, trans_performers) = is_male)
  IN  [k \in 1..Len(chosen) |->
         PerformerLine(chosen[k], male_performers, trans_performers)]

\* "\n".join(map(normalize_whitespace, lines))
PerformerCell(lines) ==
  Join([k \in 1..Len(lines) |-> normalize_whitespace(lines[k])], NL)

\* scene.get("site", {}).get(key) or scene.get("webserie", {}).get(key)
site_name(scene) == Or(scene.site.name, scene.webserie.name)
site_url(scene) == Or(scene.site.pair_url, scene.webserie.pair_url)

mapped_network(scene, site_to_network_map) ==
  Or(GetOrEmpty(site_to_network_map, normalize_name(Or(scene.studio.name, <<>>))),
     GetOrEmpty(site_to_network_map, normalize_name(Or(site_name(scene), <<>>))))

\* if mapped_network and normalize_name(mapped_network) != normalize_name(studio_name or "")
IsDerivedNetwork(mapped, studio_name) ==
  Truthy(mapped) /\ normalize_name(mapped) # normalize_name(Or(studio_name, <<>>))

\* Mutation: a derived network is linked to the studio's URL.
DerivedNetworkCellLinked(mapped, studio_url, enabled) ==
  LinkedName(mapped, studio_url, enabled)

\* Derived network: text only.
DerivedNetworkCell(mapped, studio_url, enabled) == DisplayName(mapped)

\* Mutation: an explicit network is preferred to the group.
GroupFirstNever(group_name, network_name) ==
  Truthy(group_name) /\ ~Truthy(network_name)

\* if group_name: the group takes top priority
GroupFirst(group_name, network_name) == Truthy(group_name)

\* Mutation: a group without a URL borrows the URL of column H.
group_url_or_site(scene) == Or(scene.group.pair_url, site_url(scene))

\* group_url = scene.get("group", {}).get("pair_url")
group_url(scene) == scene.group.pair_url

\* Column G
network_cell(scene, site_to_network_map, enabled) ==
  IF GroupFirst(scene.group.name, scene.network.name)
  THEN LinkedName(scene.group.name, group_url(scene), enabled)
  ELSE IF Truthy(scene.network.name)
  THEN LinkedName(scene.network.name, scene.network.pair_url, enabled)
  ELSE LET mapped == mapped_network(scene, site_to_network_map)
       IN  IF IsDerivedNetwork(mapped, scene.studio.name)
           THEN DerivedNetworkCell(mapped, scene.studio.pair_url, enabled)
           ELSE IF Truthy(scene.studio.name)
           THEN LinkedName(scene.studio.name, scene.studio.pair_url, enabled)
           ELSE <<>>

\* if group_name and studio_name:
StudioUnderGroup(group_name, studio_name) == Truthy(group_name) /\ Truthy(studio_name)

\* Column H
site_cell(scene, site_to_network_map, enabled) ==
  IF StudioUnderGroup(scene.group.name, scene.studio.name)
  THEN LinkedName(scene.studio.name, scene.studio.pair_url, enabled)
  ELSE IF /\ Truthy(scene.studio.name)
          /\ normalize_name(scene.studio.name) \in DOMAIN site_to_network_map
  THEN LinkedName(scene.studio.name, scene.studio.pair_url, enabled)
  ELSE IF Truthy(site_name(scene))
  THEN LinkedName(site_name(scene), site_url(scene), enabled)
  ELSE <<>>

\* The list flatten_scene_to_row returns (columns A to X).
flatten_scene_to_row(scene, pornstar_name, males, trans, site_to_network_map, enabled) ==
  [c \in 0..23 |->
     CASE c = 1 -> pornstar_name
       [] c = 2 -> scene.scene_id
       [] c = 3 -> scene.date
       [] c = 4 -> PerformerCell(PerformerList(scene.performers, TRUE,
                                               males, trans))
       [] c = 5 -> PerformerCell(PerformerList(scene.performers, FALSE,
                                               males, trans))
       [] c = 6 -> network_cell(scene, site_to_network_map, enabled)
       [] c = 7 -> site_cell(scene, site_to_network_map, enabled)
       [] c = 8 -> Or(scene.scene_title, <<>>)
       [] c = 10 -> IF scene.is_vr_video THEN <<"Y", "e", "s">> ELSE <<"N", "o">>
       [] c = 15 -> convert_duration(scene.duration)
       [] c = 20 -> scene.original_site_final_url
       [] c = 21 -> scene.scene_url
       [] c = 22 -> scene.trailer_url
       [] OTHER -> None]


(***************************************************************************)
(* Inputs: worksheets and scraped sources.                                 *)
(***************************************************************************)
Columns == 0..(SHEET_MAX_COLS - 1)

Empty == <<>>
SidA == <<"s", "1">>
SidB == <<"s", "9">>
PerfA == <<"a", " ", "{", "1", "}">>
PerfB == <<"b", " ", "{", "1", "}">>
PerfAB == <<"A", " ", "{", "5", "}", NL, "b", " ", "{", "1", "}">>

\* A worksheet row with the given cells and "" everywhere else.
SheetRow(cells) == [c \in Columns |-> IF c \in DOMAIN cells THEN cells[c] ELSE Empty]

HeaderRow == [c \in Columns |-> <<"c">>]

\* A template row the spreadsheet has not filled in at all.
BlankRow == SheetRow(<<>>)

\* A free template row whose template-owned cells are pre-filled.
TemplateRow ==
  SheetRow((0 :> <<"1">>) @@ (9 :> <<"b">>) @@ (11 :> <<"n", "o">>)
           @@ (13 :> <<"a">>) @@ (23 :> <<"t">>))

\* Occupied rows.  OccupiedA holds a scene with a whitespace-only duration.
OccupiedA ==
  SheetRow((1 :> <<"p">>) @@ (2 :> SidA) @@ (3 :> <<"d">>) @@ (4 :> PerfA)
           @@ (6 :> <<"n">>) @@ (8 :> <<"t">>) @@ (10 :> <<"N", "o">>)
           @@ (15 :> <<" ">>) @@ (21 :> <<"a">>))

\* OccupiedAEdited holds the same scene, edited by hand: an invisible
\* character in the identifier, a duration, two cross-reference URLs in
\* reverse order, another VR flag, a file size, a trailer URL and filled
\* template cells.
OccupiedAEdited ==
  SheetRow((0 :> <<"1">>) @@ (1 :> <<"p">>) @@ (2 :> (SidA \o <<ZWSP>>))
           @@ (3 :> <<"d">>) @@ (4 :> PerfB) @@ (5 :> PerfA) @@ (6 :> <<"n">>)
           @@ (8 :> <<"t">>) @@ (10 :> <<"e">>) @@ (11 :> <<"n", "o">>)
           @@ (13 :> <<"a">>) @@ (14 :> <<"5">>) @@ (15 :> <<"9", " ", "m">>)
           @@ (21 :> <<"b", NL, " ", "a">>) @@ (22 :> <<"t">>) @@ (23 :> <<"t">>))

\* A row with content but no scene identifier: neither indexed nor free.
UnidentifiedRow == SheetRow((8 :> <<"t">>) @@ (14 :> <<"5">>))

SheetRowKinds ==
  {BlankRow, TemplateRow, OccupiedA, OccupiedAEdited, UnidentifiedRow}

RECURSIVE SeqsUpTo(_, _)
SeqsUpTo(S, n) ==
  IF n = 0 THEN {<<>>}
  ELSE LET shorter == SeqsUpTo(S, n - 1)
       IN  shorter \cup {Append(q, x) : q \in {t \in shorter : Len(t) = n - 1}, x \in S}

\* Identifier values are unique among the occupied rows of a worksheet.
UniqueIds(data_rows) ==
  \A j, k \in 1..Len(data_rows) :
    (j # k /\ norm_scene_id(data_rows[j][SCENE_ID_INDEX]) # Empty)
      => norm_scene_id(data_rows[j][SCENE_ID_INDEX])
           # norm_scene_id(data_rows[k][SCENE_ID_INDEX])

Worksheets ==
  {<<HeaderRow>> \o d : d \in {q \in SeqsUpTo(SheetRowKinds, MaxSheetRows) : UniqueIds(q)}}

\* The row list flatten_scene_to_row returns: None in the columns the
\* template or the user owns, text elsewhere.
FlatRow(sid, males, females, duration, url) ==
  [c \in Columns |->
     CASE c = 1 -> <<"p">>
       [] c = 2 -> sid
       [] c = 3 -> <<"d">>
       [] c = 4 -> males
       [] c = 5 -> females
       [] c = 6 -> <<"n">>
       [] c = 7 -> Empty
       [] c = 8 -> <<"t">>
       [] c = 10 -> <<"N", "o">>
       [] c = 15 -> duration
       [] c = 20 -> <<"o">>
       [] c = 21 -> url
       [] c = 22 -> <<"c">>
       [] OTHER -> None]

Candidate(row, links) == [row |-> row, links |-> links]

CandidateKinds ==
  { Candidate(FlatRow(SidA, PerfA, PerfAB, <<"5", " ", "m">>, <<"a">>),
              (<<"a">> :> <<"c">>)),
    Candidate(FlatRow(<<" ">> \o SidA \o <<NBSP>>, Empty, Empty, Empty, <<"b", " ">>),
              <<>>),
    Candidate(FlatRow(SidB, Empty, PerfB, <<"9", " ", "s">>, <<"b">>),
              (<<"b">> :> <<"d">>)),
    Candidate(FlatRow(Empty, Empty, PerfB, <<"5", " ", "m">>, Empty), <<>>) }

ScrapedSources == SeqsUpTo(CandidateKinds, MaxScenes)

(***************************************************************************)
(* State.                                                                  *)
(***************************************************************************)
VARIABLES
  sheet_values,        \* the worksheet: sheet_values[r] is sheet row r, row 1 the header
  scenes,              \* the scraped source, flattened: (row, performer_links) pairs
  run,                 \* the number of the current invocation of the script
  pc,                  \* "read", "loop" or "done"
  existing_rows,       \* snapshot of the data rows, read once per run
  scene_index,         \* normalized scene identifier -> sheet row number
  free_rows,           \* sheet row numbers of the free template rows
  batch_cells,         \* accumulated plain cell writes
  rich_text_requests,  \* accumulated rich-text replacement requests
  free_idx,            \* number of free rows handed out so far
  i,                   \* position of the loop over the candidate rows (from 1)
  outcome,             \* per candidate: "New", "Matched", "Inserted" or "Dropped"
  emitted,             \* per candidate: the requests its step appended
  raw_scenes,          \* scenes of the scraped file, as loaded from JSON
  hyperlinks_enabled,  \* the --hyperlinks switch
  flattened,           \* per raw scene: what flatten_scene_to_row returned
  call,                \* the arguments of a helper that is called on its own
  returned             \* what that helper returned

\* The state of the reconciliation loop, and the state of the calls.
loop_vars == <<sheet_values, scenes, run, existing_rows, scene_index, free_rows,
               batch_cells, rich_text_requests, free_idx, i, outcome, emitted>>
call_vars == <<raw_scenes, hyperlinks_enabled, flattened, call, returned>>

vars == <<loop_vars, pc, call_vars>>

NoCall == <<>>

\* rows.append(row + [""] * (MAX_COLS - len(row)))
rows == [k \in 1..Len(scenes) |-> PadRow(scenes[k].row, MAX_COLS)]
performer_link_maps == [k \in 1..Len(scenes) |-> scenes[k].links]

\* sheet_values[1:] padded to MAX_COLS
normalize_rows(values) == [k \in 1..(Len(values) - 1) |-> PadRow(values[k + 1], MAX_COLS)]

NoRequests == [cells |-> <<>>, rich |-> <<>>]

Init ==
  /\ sheet_values \in Worksheets
  /\ scenes \in ScrapedSources
  /\ run = 1
  /\ pc = "read"
  /\ existing_rows = <<>>
  /\ scene_index = <<>>
  /\ free_rows = <<>>
  /\ batch_cells = <<>>
  /\ rich_text_requests = <<>>
  /\ free_idx = 0
  /\ i = 1
  /\ outcome = [k \in 1..Len(scenes) |-> "New"]
  /\ emitted = [k \in 1..Len(scenes) |-> NoRequests]
  /\ raw_scenes = <<>>
  /\ hyperlinks_enabled = TRUE
  /\ flattened = <<>>
  /\ call = NoCall
  /\ returned = NoCall

\* main.py 162-175: read the sheet, derive the index and the free rows.
ReadSheet ==
  /\ pc = "read"
  /\ existing_rows' = normalize_rows(sheet_values)
  /\ scene_index' = build_sceneid_index(normalize_rows(sheet_values))
  /\ free_rows' = find_empty_template_rows(normalize_rows(sheet_values))
  /\ batch_cells' = <<>>
  /\ rich_text_requests' = <<>>
  /\ free_idx' = 0
  /\ i' = 1
  /\ pc' = "loop"
  /\ UNCHANGED <<call_vars, sheet_values, scenes, run, outcome, emitted>>

sid == norm_scene_id(rows[i][SCENE_ID_INDEX])

\* Mutation: the free-row branch is tried first.
IsExistingAfterFreeRows(s, index) == s \in DOMAIN index /\ free_idx >= Len(free_rows)

IsExisting(s, index) == s \in DOMAIN index

HasFreeRow(idx, free) == idx < Len(free)

\* Mutation: free_idx is not advanced.
NextFreeIdxStuck(idx) == idx

NextFreeIdx(idx) == idx + 1

\* Mutation: the loop skips a candidate.
LoopAdvanceSkipping(pos) == pos + 2

\* for i, row in enumerate(rows): the loop moves to the next candidate.
LoopAdvance(pos) == pos + 1

\* main.py 185-196: the scene is in the index.
UpdateExisting ==
  /\ pc = "loop"
  /\ i <= Len(rows)
  /\ IsExisting(sid, scene_index)
  /\ LET rnum  == scene_index[sid]
         cells == update_existing_row_cells(0, rnum, rows[i], existing_rows[rnum - 1],
                                            UPDATEABLE_COLUMNS)
         rich  == update_existing_row_rich(0, rnum, rows[i], UPDATEABLE_COLUMNS,
                                           performer_link_maps[i])
     IN  /\ batch_cells' = batch_cells \o cells
         /\ rich_text_requests' = rich_text_requests \o rich
         /\ emitted' = [emitted EXCEPT ![i] = [cells |-> cells, rich |-> rich]]
  /\ outcome' = [outcome EXCEPT ![i] = "Matched"]
  /\ i' = LoopAdvance(i)
  /\ UNCHANGED <<call_vars, sheet_values, scenes, run, pc, existing_rows, scene_index,
                 free_rows, free_idx>>

\* main.py 199-206: a new scene and a free template row is left.
InsertIntoTemplate ==
  /\ pc = "loop"
  /\ i <= Len(rows)
  /\ ~IsExisting(sid, scene_index)
  /\ HasFreeRow(free_idx, free_rows)
  /\ LET cells == write_new_row_from_template(0, free_rows[free_idx + 1], rows[i],
                                              INSERT_SKIP_INDEX)
     IN  /\ batch_cells' = batch_cells \o cells
         /\ emitted' = [emitted EXCEPT ![i] = [cells |-> cells, rich |-> <<>>]]
  /\ free_idx' = NextFreeIdx(free_idx)
  /\ outcome' = [outcome EXCEPT ![i] = "Inserted"]
  /\ i' = LoopAdvance(i)
  /\ UNCHANGED <<call_vars, sheet_values, scenes, run, pc, existing_rows, scene_index,
                 free_rows, rich_text_requests>>

\* main.py 181-206: neither branch is taken; the loop moves on.
DropCandidate ==
  /\ pc = "loop"
  /\ i <= Len(rows)
  /\ ~IsExisting(sid, scene_index)
  /\ ~HasFreeRow(free_idx, free_rows)
  /\ outcome' = [outcome EXCEPT ![i] = "Dropped"]
  /\ i' = LoopAdvance(i)
  /\ UNCHANGED <<call_vars, sheet_values, scenes, run, pc, existing_rows, scene_index,
                 free_rows, batch_cells, rich_text_requests, free_idx, emitted>>

\* ws.update_cells (gspread): the cells are written in order, and a cell
\* whose value is None is sent as null, which the sheet leaves as it is.
RECURSIVE ApplyCells(_, _)
ApplyCells(values, cells) ==
  IF cells = <<>> THEN values
  ELSE LET cell == Head(cells)
       IN  ApplyCells(
             IF cell.value = None THEN values
             ELSE [values EXCEPT ![cell.row][cell.col - 1] = cell.value],
             Tail(cells))

\* spreadsheet.batch_update: updateCells replaces the cell's text.
RECURSIVE ApplyRich(_, _)
ApplyRich(values, requests) ==
  IF requests = <<>> THEN values
  ELSE LET req == Head(requests)
       IN  ApplyRich([values EXCEPT ![req.rowIndex + 1][req.columnIndex] = req.stringValue],
                     Tail(requests))

\* main.py 212-218: hand the accumulated batch to the sheet API.
ExecuteBatch ==
  /\ pc = "loop"
  /\ i > Len(rows)
  /\ sheet_values' = ApplyRich(ApplyCells(sheet_values, batch_cells), rich_text_requests)
  /\ pc' = "done"
  /\ UNCHANGED <<call_vars, scenes, run, existing_rows, scene_index, free_rows, batch_cells,
                 rich_text_requests, free_idx, i, outcome, emitted>>

\* The script is invoked again on the same scraped file.
NextRun ==
  /\ pc = "done"
  /\ run < MaxRuns
  /\ run' = run + 1
  /\ pc' = "read"
  /\ outcome' = [k \in 1..Len(scenes) |-> "New"]
  /\ emitted' = [k \in 1..Len(scenes) |-> NoRequests]
  /\ UNCHANGED <<call_vars, sheet_values, scenes, existing_rows, scene_index, free_rows,
                 batch_cells, rich_text_requests, free_idx, i>>

Next ==
  \/ ReadSheet
  \/ UpdateExisting
  \/ InsertIntoTemplate
  \/ DropCandidate
  \/ ExecuteBatch
  \/ NextRun

Spec == Init /\ [][Next]_vars

\* The inputs of the fair specification: rows and scenes of every outcome.
FairRowKinds == {TemplateRow, OccupiedAEdited, UnidentifiedRow}
FairCandidateKinds ==
  {cand \in CandidateKinds : cand.row[SCENE_ID_INDEX] \in {SidA, SidB, Empty}}

FairInit ==
  /\ Init
  /\ Range(Tail(sheet_values)) \subseteq FairRowKinds
  /\ Range(scenes) \subseteq FairCandidateKinds

\* The script is sequential: every step that can be taken is taken.
FairSpec == FairInit /\ [][Next]_vars /\ WF_vars(Next)

(***************************************************************************)
(* One run over a worksheet whose rows are of more kinds, identifiers that *)
(* occur twice included, and a scraped file of at most one scene.          *)
(***************************************************************************)
\* A row whose cells outside the allowed columns hold whitespace only.
PaddedRow ==
  SheetRow((2 :> <<" ">>) @@ (8 :> <<NBSP, " ">>) @@ (9 :> <<"b">>) @@ (22 :> <<NL>>))

\* A row that holds nothing but a scene identifier, padded.
SidOnlyRow == SheetRow((2 :> (<<" ">> \o SidB \o <<NBSP>>)))

\* A row whose identifier cell holds an invisible character only.
InvisibleIdRow == SheetRow((2 :> <<ZWSP>>))

\* A row that holds nothing but a trailer URL.
TrailerOnlyRow == SheetRow((22 :> <<"t">>))

StateRowKinds ==
  {BlankRow, TemplateRow, PaddedRow, OccupiedA, OccupiedAEdited, SidOnlyRow,
   InvisibleIdRow, TrailerOnlyRow, UnidentifiedRow}

StateWorksheets == {<<HeaderRow>> \o d : d \in SeqsUpTo(StateRowKinds, MaxSheetRows)}

StateSources == {<<>>} \cup {<<cand>> : cand \in CandidateKinds}

StateInit ==
  /\ sheet_values \in StateWorksheets
  /\ scenes \in StateSources
  /\ run = 1
  /\ pc = "read"
  /\ existing_rows = <<>>
  /\ scene_index = <<>>
  /\ free_rows = <<>>
  /\ batch_cells = <<>>
  /\ rich_text_requests = <<>>
  /\ free_idx = 0
  /\ i = 1
  /\ outcome = [k \in 1..Len(scenes) |-> "New"]
  /\ emitted = [k \in 1..Len(scenes) |-> NoRequests]
  /\ raw_scenes = <<>>
  /\ hyperlinks_enabled = TRUE
  /\ flattened = <<>>
  /\ call = NoCall
  /\ returned = NoCall

StateNext ==
  \/ ReadSheet
  \/ UpdateExisting
  \/ InsertIntoTemplate
  \/ DropCandidate
  \/ ExecuteBatch

StateSpec == StateInit /\ [][StateNext]_vars

(***************************************************************************)
(* Flattening the scenes of a scraped file (main.py 142-156).              *)
(***************************************************************************)
MaxPerformers == 2

Entity(name, pair_url) == [name |-> name, pair_url |-> pair_url]
NoEntity == Entity(None, None)
Performer(name, scenes_count, pair_url) ==
  [name |-> name, scenes_count |-> scenes_count, pair_url |-> pair_url]

RawScene(performers, group, network, studio, site, webserie) ==
  [ performers |-> performers, group |-> group, network |-> network,
    studio |-> studio, site |-> site, webserie |-> webserie,
    scene_id |-> SidA, date |-> <<"d">>, scene_title |-> <<"t">>,
    is_vr_video |-> FALSE, duration |-> <<"5", ":", "0", "9">>,
    original_site_final_url |-> <<"o">>, scene_url |-> <<"a">>,
    trailer_url |-> <<"c">> ]

\* The reference files (main.py 84-98), keys and set members normalized.
pornstar == <<"p">>
male_performers == {<<"a", "l">>, <<"b", "o">>}
trans_performers == {<<"b", "o">>, <<"c", "y">>}
site_to_network ==
  (<<"k", "i", "d">> :> <<"V", "i", "x", "e", "n", " ", "M", "e", "d", "i", "a">>) @@ (<<"s", "o", "l", "o">> :> <<"S", "o", "l", "o">>) @@ (<<"w", "e", "b">> :> <<"b", "i", "g", " ", "n", "e", "t">>)

GroupKinds == {NoEntity, Entity(<<"g", "i", "r", "l", "s", "w", "a", "y">>, None), Entity(<<"G", "i", "r", "l", "s", "w", "a", "y">>, <<"g", "\"">>)}
NetworkKinds == {NoEntity, Entity(<<"n", "e", "t">>, <<"n">>)}
\* A child studio of a network, a studio that is its own network, and a
\* studio the mapping does not know.
StudioKinds ==
  {NoEntity, Entity(<<"K", "i", "d">>, <<"k">>), Entity(<<"s", "o", "l", "o">>, <<"s">>), Entity(<<"l", "o", "n", "e">>, None)}
SiteKinds == {NoEntity, Entity(<<"w", "e", "b">>, <<"w">>), Entity(<<"w", "e", "b">>, None)}
WebserieKinds == {NoEntity, Entity(<<"s", "e", "r">>, <<"v">>), Entity(<<"s", "e", "r">>, None)}

PerformerKinds ==
  { Performer(<<" ", "A", "l">>, None, <<"u">>),
    Performer(<<"b", "o">>, <<"5">>, None),
    Performer(<<"c", "y">>, <<>>, <<"v">>),
    Performer(<<"d", "i", " ", " ", "x">>, <<" ", "5">>, None) }

EntityScenes ==
  {RawScene(<<>>, g, n, st, si, w) :
     g \in GroupKinds, n \in NetworkKinds, st \in StudioKinds,
     si \in SiteKinds, w \in WebserieKinds}
PerformerScenes ==
  {RawScene(p, NoEntity, NoEntity, NoEntity, NoEntity, NoEntity) :
     p \in SeqsUpTo(PerformerKinds, MaxPerformers)}

\* The loop of the reconciliation has not started.
LoopIdle ==
  /\ sheet_values = <<HeaderRow>>
  /\ scenes = <<>>
  /\ run = 1
  /\ existing_rows = <<>>
  /\ scene_index = <<>>
  /\ free_rows = <<>>
  /\ batch_cells = <<>>
  /\ rich_text_requests = <<>>
  /\ free_idx = 0
  /\ i = 1
  /\ outcome = <<>>
  /\ emitted = <<>>

\* A scraped file of two scenes that differ in their entities, or of one
\* scene with performers.
FlattenInit ==
  /\ LoopIdle
  /\ pc = "flatten"
  /\ \/ \E scene \in EntityScenes, twin \in EntityScenes : raw_scenes = <<scene, twin>>
     \/ \E scene \in PerformerScenes : raw_scenes = <<scene>>
  /\ hyperlinks_enabled \in BOOLEAN
  /\ flattened = <<>>
  /\ call = NoCall
  /\ returned = NoCall

\* flatten_scene_to_row applied to every scene of the file.
Flatten ==
  /\ pc = "flatten"
  /\ flattened' = [k \in 1..Len(raw_scenes) |->
                     flatten_scene_to_row(raw_scenes[k], pornstar, male_performers,
                                          trans_performers, site_to_network,
                                          hyperlinks_enabled)]
  /\ pc' = "unpack"
  /\ UNCHANGED <<loop_vars, raw_scenes, hyperlinks_enabled, call, returned>>

\* main.py 146: row, performer_links = flatten_scene_to_row(...).  Unpacking
\* a list into two names succeeds only for a list of two elements.
Unpack ==
  /\ pc = "unpack"
  /\ pc' = IF Width(flattened[1]) = 2 THEN "appended" ELSE "ValueError"
  /\ UNCHANGED <<loop_vars, call_vars>>

FlattenNext == Flatten \/ Unpack

FlattenSpec == FlattenInit /\ [][FlattenNext]_vars


(***************************************************************************)
(* Flattening one scene of a scraped file in which keys are missing or     *)
(* hold null.  A key of a JSON object is missing, holds null or holds a    *)
(* value.                                                                  *)
(***************************************************************************)
Missing == [json |-> "missing"]
Null == [json |-> "null"]
Value(v) == [json |-> "value", value |-> v]

\* dict.get(key, default) where the key does not hold null
ValueOf(field, default) == IF field.json = "value" THEN field.value ELSE default

\* scene.get(key, {}).get(...): None has no attribute get
GetRaises(field) == field.json = "null"

Details(duration, original_site_final_url) ==
  [duration |-> duration, original_site_final_url |-> original_site_final_url]
\* {}.get("duration"), {}.get("original_site_final_url", "")
NoDetails == Details(None, <<>>)

\* scene_flatten.py 91-104 and 207, in the order of evaluation: the web
\* series is looked at only when the site has no name, or no URL.
Raises(scene) ==
  \/ GetRaises(scene.group)
  \/ GetRaises(scene.network)
  \/ GetRaises(scene.studio)
  \/ GetRaises(scene.site)
  \/ /\ GetRaises(scene.webserie)
     /\ \/ ~Truthy(ValueOf(scene.site, NoEntity).name)
        \/ ~Truthy(ValueOf(scene.site, NoEntity).pair_url)
  \/ GetRaises(scene.details)

\* The scene as the expressions scene.get(key, default) see it.
Loaded(scene) ==
  [ RawScene(ValueOf(scene.performers, <<>>),
             ValueOf(scene.group, NoEntity), ValueOf(scene.network, NoEntity),
             ValueOf(scene.studio, NoEntity), ValueOf(scene.site, NoEntity),
             ValueOf(scene.webserie, NoEntity))
    EXCEPT !.duration = ValueOf(scene.details, NoDetails).duration,
           !.original_site_final_url =
              ValueOf(scene.details, NoDetails).original_site_final_url ]

SparseScene(performers, group, network, studio, site, webserie, details) ==
  [ performers |-> performers, group |-> group, network |-> network,
    studio |-> studio, site |-> site, webserie |-> webserie, details |-> details ]

SparseGroups == {Missing, Null, Value(Entity(<<"G", "i", "r", "l", "s", "w", "a", "y">>, <<"g">>))}
SparseNetworks == {Missing, Null}
SparseStudios == {Missing, Null, Value(Entity(None, <<"k">>))}
SparseSites == {Missing, Null, Value(Entity(<<"w", "e", "b">>, <<"w">>)), Value(Entity(<<"w", "e", "b">>, None))}
SparseWebseries == {Missing, Null, Value(Entity(<<"s", "e", "r">>, None))}
SparseDetails ==
  {Missing, Null, Value(Details(None, None)), Value(Details(<<"5", ":", "0", "9">>, <<"o">>))}
SparsePerformers ==
  { Missing, Null, Value(<<>>), Value(<<Performer(None, None, None)>>),
    Value(<<Performer(<<" ", "A", "l">>, None, <<"u">>)>>) }

SparseScenes ==
  {SparseScene(p, g, n, st, si, w, dt) :
     p \in SparsePerformers, g \in SparseGroups, n \in SparseNetworks,
     st \in SparseStudios, si \in SparseSites, w \in SparseWebseries,
     dt \in SparseDetails}

SparseInit ==
  /\ LoopIdle
  /\ pc = "flatten"
  /\ \E scene \in SparseScenes : raw_scenes = <<scene>>
  /\ hyperlinks_enabled = TRUE
  /\ flattened = <<>>
  /\ call = NoCall
  /\ returned = NoCall

\* main.py 146: flatten_scene_to_row is called on the scene; an
\* AttributeError it raises ends the script.
FlattenSparse ==
  /\ pc = "flatten"
  /\ IF Raises(raw_scenes[1])
     THEN /\ pc' = "AttributeError"
          /\ flattened' = flattened
     ELSE /\ pc' = "unpack"
          /\ flattened' = <<flatten_scene_to_row(Loaded(raw_scenes[1]), pornstar,
                                                   male_performers, trans_performers,
                                                   site_to_network, hyperlinks_enabled)>>
  /\ UNCHANGED <<loop_vars, raw_scenes, hyperlinks_enabled, call, returned>>

SparseNext == FlattenSparse \/ Unpack

SparseSpec == SparseInit /\ [][SparseNext]_vars

(***************************************************************************)
(* convert_duration called on its own.                                     *)
(***************************************************************************)
MaxHours == 1

\* A number below 100 written with two digits.
TwoDigits(n) == IF n < 10 THEN <<"0">> \o IntText(n) ELSE IntText(n)

MinuteValues == {0, 5, 59, 60, 61, 125}
TwoDigitValues == {0, 9, 45, 75}

ClockTexts ==
  {IntText(m) \o <<":">> \o TwoDigits(sec) : m \in MinuteValues, sec \in TwoDigitValues}
  \cup {IntText(h) \o <<":">> \o TwoDigits(m) \o <<":">> \o TwoDigits(sec) :
          h \in 0..MaxHours, m \in TwoDigitValues, sec \in TwoDigitValues}

\* Durations of other shapes: no string, blank, padded, ill-formed clock
\* texts, texts with unit words and free text.
OtherDurations ==
  { None, <<>>, <<" ">>, <<" ", "5", ":", "0", "9", " ">>, <<"0", "5", ":", "0", "9">>, <<"1", ":", "0", "2", ":", "0", "3">>, <<"5", ":", "9">>,
    <<"1", ":", "0", "2", ":", "0", "3", ":", "0", "4">>, <<"x", ":", "0", "5">>,
    <<"2", "9", " ", "m", "i", "n", ",", " ", "1", "6", " ", "s", "e", "c">>, <<"0", " ", "h", "r", ",", " ", "5", " ", "m", "i", "n">>,
    <<"0", " ", "h", "r", ",", "5", " ", "s", "e", "c", " ">>, <<"3", " ", "h", "r">>,
    <<"m", "i", "n", "s">>, <<" ", "s", "o", "m", "e", " ", "t", "e", "x", "t">> }

DurationInit ==
  /\ LoopIdle
  /\ pc = "call"
  /\ raw_scenes = <<>>
  /\ hyperlinks_enabled = TRUE
  /\ flattened = <<>>
  /\ call \in {[fn |-> "convert_duration", duration |-> d] :
                  d \in ClockTexts \cup OtherDurations}
  /\ returned = NoCall

ConvertDuration ==
  /\ pc = "call"
  /\ call.fn = "convert_duration"
  /\ returned' = convert_duration(call.duration)
  /\ pc' = "returned"
  /\ UNCHANGED <<loop_vars, raw_scenes, hyperlinks_enabled, flattened, call>>

DurationNext == ConvertDuration

DurationSpec == DurationInit /\ [][DurationNext]_vars

(***************************************************************************)
(* merge_urls called on its own: a cell is merged with a scraped value,    *)
(* and the merged cell is merged with the same scraped value again.        *)
(***************************************************************************)
UrlCells ==
  { None, <<>>, <<"a">>, <<"b", " ">>, <<"b", NL, " ", "a">>, <<"a", NL, "a">>,
    <<"c", NL, NL, "b">>, <<" ", "c", " ", NL, "a", NL, "b">> }

MergeInit ==
  /\ LoopIdle
  /\ pc = "call"
  /\ raw_scenes = <<>>
  /\ hyperlinks_enabled = TRUE
  /\ flattened = <<>>
  /\ call \in {[fn |-> "merge_urls", old |-> old, new |-> new] :
                  old \in UrlCells, new \in UrlCells}
  /\ returned = NoCall

\* sheet_writer.py 131: merged = merge_urls(old_val, new_val)
MergeUrls ==
  /\ pc = "call"
  /\ call.fn = "merge_urls"
  /\ returned' = <<merge_urls(call.old, call.new)>>
  /\ pc' = "merged"
  /\ UNCHANGED <<loop_vars, raw_scenes, hyperlinks_enabled, flattened, call>>

\* The same line on a later run: the old value is the merged cell.
MergeAgain ==
  /\ pc = "merged"
  /\ returned' = Append(returned, merge_urls(returned[1], call.new))
  /\ pc' = "merged again"
  /\ UNCHANGED <<loop_vars, raw_scenes, hyperlinks_enabled, flattened, call>>

MergeNext == MergeUrls \/ MergeAgain

MergeSpec == MergeInit /\ [][MergeNext]_vars

(***************************************************************************)
(* The display text of an entity name, computed on its own, and the text   *)
(* title-cased once more.                                                  *)
(***************************************************************************)
MaxWords == 2

\* Tokens of entity names: lowercase, uppercase, mixed case, with a digit,
\* with a question mark, with an apostrophe, without a letter.
NameTokens ==
  { <<"v", "r">>, <<"V", "R">>, <<"M", "c", "D">>, <<"4", "k">>, <<"a", "?", "b">>, <<"o", "'", "n">>, <<"&">>, <<"?">> }

\* Names of up to MaxWords tokens, single-spaced or padded, the names of
\* the alias table in several spellings, and two names of several words.
EntityNames ==
  {Join(ws, " ") : ws \in SeqsUpTo(NameTokens, MaxWords)}
  \cup {<<" ">> \o JoinText(ws, <<" ", NBSP>>) \o <<" ">> : ws \in SeqsUpTo(NameTokens, MaxWords)}
  \cup { <<"g", "i", "r", "l", "s", "w", "a", "y">>, <<" ", "G", "i", "r", "l", "s", "W", "a", "y", " ">>, <<"V", "i", "x", "e", "n", " ", "M", "e", "d", "i", "a">>,
         <<"f", "a", "n", "t", "a", "s", "y", " ", " ", "m", "a", "s", "s", "a", "g", "e">>, <<"g", "i", "r", "l", "s", "w", "a", "y", "?">>,
         <<"V", "R", " ", "U", "H", "D", " ", "S", "c", "e", "n", "e">>, <<"t", "h", "e", " ", "G", "R", "E", "A", "T", " ", "e", "s", "c", "a", "p", "e">> }

DisplayInit ==
  /\ LoopIdle
  /\ pc = "call"
  /\ raw_scenes = <<>>
  /\ hyperlinks_enabled = TRUE
  /\ flattened = <<>>
  /\ call \in {[fn |-> "to_title_case", name |-> name] : name \in EntityNames}
  /\ returned = NoCall

\* scene_flatten.py 116: to_title_case(apply_network_alias(group_name))
DisplayEntity ==
  /\ pc = "call"
  /\ call.fn = "to_title_case"
  /\ returned' = <<DisplayName(call.name)>>
  /\ pc' = "displayed"
  /\ UNCHANGED <<loop_vars, raw_scenes, hyperlinks_enabled, flattened, call>>

\* to_title_case applied to a text it returned.
TitleAgain ==
  /\ pc = "displayed"
  /\ returned' = Append(returned, to_title_case(returned[1]))
  /\ pc' = "titled again"
  /\ UNCHANGED <<loop_vars, raw_scenes, hyperlinks_enabled, flattened, call>>

DisplayNext == DisplayEntity \/ TitleAgain

DisplaySpec == DisplayInit /\ [][DisplayNext]_vars

TypeOK ==
  /\ pc \in {"read", "loop", "done", "flatten", "unpack", "ValueError", "appended",
            "call", "returned", "merged", "merged again", "displayed", "titled again",
            "AttributeError"}
  /\ run \in 1..MaxRuns
  /\ i \in 1..(Len(scenes) + 1)
  /\ Len(outcome) = Len(scenes)
  /\ free_idx \in 0..Len(free_rows)


(***************************************************************************)
(* Properties.                                                             *)
(***************************************************************************)
Min(a, b) == IF a < b THEN a ELSE b

SidOf(k) == norm_scene_id(rows[k][SCENE_ID_INDEX])
Candidates == 1..Len(scenes)
Unmatched == {k \in Candidates : SidOf(k) \notin DOMAIN scene_index}
WithOutcome(o) == {k \in Candidates : outcome[k] = o}
MatchedRow(k) == scene_index[SidOf(k)]
OldRowOf(k) == existing_rows[MatchedRow(k) - 1]
\* The 0-based columns and the rows a list of plain writes addresses.
CellCols(cells) == {cells[j].col - 1 : j \in DOMAIN cells}
CellRows(cells) == {cells[j].row : j \in DOMAIN cells}
RichCols(reqs) == {reqs[j].columnIndex : j \in DOMAIN reqs}
RichRows(reqs) == {reqs[j].rowIndex + 1 : j \in DOMAIN reqs}
Blank(text) == \A j \in DOMAIN text : text[j] \in Whitespace
LoopOver == pc = "done"

\* C1: the second run over the same scraped scenes, the first run's writes
\* applied and nothing else changed, emits no plain write and no rich-text
\* request.
C1_SecondRunEmitsNothing ==
  (run >= 2 /\ LoopOver) => (batch_cells = <<>> /\ rich_text_requests = <<>>)

\* C2: with U candidates not in the index and F free template rows, exactly
\* min(U, F) candidates are written into free template rows, the other
\* unmatched ones are dropped without any request, and no request addresses
\* a row beyond the existing sheet rows.
C2_FreeRowReuse ==
  LoopOver =>
    LET U == Cardinality(Unmatched)
        F == Len(free_rows)
        written == {k \in Unmatched :
                      /\ emitted[k].cells # <<>>
                      /\ CellRows(emitted[k].cells) \subseteq Range(free_rows)}
        silent == {k \in Unmatched : emitted[k] = NoRequests}
    IN  /\ Cardinality(written) = Min(U, F)
        /\ written = WithOutcome("Inserted")
        /\ Cardinality(silent) = U - Min(U, F)
        /\ silent = WithOutcome("Dropped")
        /\ Cardinality(UNION {CellRows(emitted[k].cells) : k \in written}) = Min(U, F)
        /\ CellRows(batch_cells) \cup RichRows(rich_text_requests)
             \subseteq 2..(Len(existing_rows) + 1)
        /\ Len(sheet_values) = Len(existing_rows) + 1

\* One free row, no occupied row, two new scenes: one insertion, one drop.
C2_Witness ==
  /\ LoopOver
  /\ Len(existing_rows) = 1
  /\ Len(free_rows) = 1
  /\ DOMAIN scene_index = {}
  /\ outcome = <<"Inserted", "Dropped">>
  /\ emitted[2] = NoRequests

\* C3: a candidate whose identifier is in the index takes the update path
\* whether or not free rows remain and consumes no free row; free rows go
\* only to candidates whose identifier is not in the index.
C3_MatchWins ==
  pc # "read" =>
    /\ \A k \in Candidates :
         (k < i /\ SidOf(k) \in DOMAIN scene_index) =>
           /\ outcome[k] = "Matched"
           /\ CellRows(emitted[k].cells) \cup RichRows(emitted[k].rich)
                \subseteq {MatchedRow(k)}
           /\ MatchedRow(k) \notin Range(free_rows)
    /\ \A k \in Candidates :
         CellRows(emitted[k].cells) \cap Range(free_rows) # {}
           => SidOf(k) \notin DOMAIN scene_index
    /\ free_idx = Cardinality({k \in Candidates :
                                 /\ k < i
                                 /\ SidOf(k) \notin DOMAIN scene_index
                                 /\ emitted[k].cells # <<>>})

\* A candidate was matched and updated while a free template row was left.
C3_Witness ==
  /\ LoopOver
  /\ free_idx < Len(free_rows)
  /\ \E k \in Candidates : outcome[k] = "Matched" /\ emitted[k].cells # <<>>


\* C4: every candidate of a run ends in exactly one of Matched, Inserted,
\* Dropped, is never reclassified later in the run, and the run reaches the
\* hand-off of its batch after each candidate was processed exactly once.
C4_Terminal ==
  /\ [][ run' = run =>
           \A k \in Candidates :
             outcome'[k] # outcome[k] =>
               /\ pc = "loop" /\ k = i /\ i' = i + 1
               /\ outcome[k] = "New"
               /\ outcome'[k] \in {"Matched", "Inserted", "Dropped"} ]_vars
  /\ [][ pc' = "done" => (i' = Len(scenes) + 1 /\ WithOutcome("New")' = {}) ]_vars
  /\ (pc = "read") ~> (pc = "done" /\ WithOutcome("New") = {})

\* A run ended with one candidate matched and the next one dropped.
C4_Witness ==
  /\ LoopOver
  /\ outcome = <<"Matched", "Dropped">>

\* C5: inserting into a free template row emits a plain write for every
\* column of the candidate row except the label column (index 23) and none
\* for the label column.
C5_InsertSkipsLabel ==
  \A k \in WithOutcome("Inserted") :
    CellCols(emitted[k].cells) = Columns \ {TELELABEL_INDEX}

\* C6: the update path emits no plain write and no rich-text request for a
\* column outside the updateable set, whatever the new and old values are.
C6_OnlyUpdateable ==
  \A k \in WithOutcome("Matched") :
    CellCols(emitted[k].cells) \cup RichCols(emitted[k].rich)
      \subseteq ({1} \cup (2..8) \cup {11} \cup (13..21))

\* A matched candidate differs from its row in the VR flag and the trailer
\* URL, both outside the updateable set, and other cells were written.
C6_Witness ==
  /\ LoopOver
  /\ \E k \in WithOutcome("Matched") :
       /\ rows[k][10] # OldRowOf(k)[10]
       /\ rows[k][TRAILER_INDEX] # OldRowOf(k)[TRAILER_INDEX]
       /\ emitted[k].cells # <<>>

TemplateOwned == {9, 11, 13, 23}

\* C7 as stated: no request of either path is addressed to a template-owned
\* column (banner 9, save-flag 11, quality 13, label 23).
C7_NoTemplateWrite ==
  /\ CellCols(batch_cells) \cap TemplateOwned = {}
  /\ RichCols(rich_text_requests) \cap TemplateOwned = {}

\* C7 amended: every plain write addressed to a template-owned column
\* carries the null placeholder, no rich-text request is addressed to one,
\* and the values of those cells are the same after every step of every run.
C7_TemplateCellsPreserved ==
  [][ /\ \A j \in DOMAIN batch_cells' :
           (batch_cells'[j].col - 1) \in TemplateOwned => batch_cells'[j].value = None
      /\ RichCols(rich_text_requests') \cap TemplateOwned = {}
      /\ \A r \in DOMAIN sheet_values : \A c \in TemplateOwned :
           sheet_values'[r][c] = sheet_values[r][c] ]_vars

\* Null writes were addressed to a pre-filled save-flag cell (by the update
\* path) and to a pre-filled label cell (by the insert path), and the batch
\* was applied.
C7_Witness ==
  /\ LoopOver
  /\ \E j \in DOMAIN batch_cells :
       /\ batch_cells[j].col - 1 = TELESAVE_INDEX
       /\ batch_cells[j].row \in Range(scene_index)
       /\ sheet_values[batch_cells[j].row][TELESAVE_INDEX] # Empty
  /\ \E j \in DOMAIN batch_cells :
       /\ batch_cells[j].col - 1 = TELELABEL_INDEX
       /\ batch_cells[j].row \in Range(free_rows)
       /\ sheet_values[batch_cells[j].row][TELELABEL_INDEX] # Empty

\* C8: on update the duration column is written only when the existing cell
\* is empty after trimming and the new value is non-empty; a non-empty
\* existing duration is never overwritten.
C8_DurationProtected ==
  \A k \in WithOutcome("Matched") :
    LET old == OldRowOf(k)[DURATION_INDEX]
        new == rows[k][DURATION_INDEX]
        writes == {j \in DOMAIN emitted[k].cells : emitted[k].cells[j].col = DURATION_INDEX + 1}
    IN  /\ writes # {} => (Blank(old) /\ new # None /\ ~Blank(new))
        /\ ~Blank(old) => writes = {}
        /\ \A j \in writes : emitted[k].cells[j].value = new
        /\ Cardinality(writes) <= 1

\* A matched row kept its duration although the scraped one differs.
C8_Witness ==
  /\ LoopOver
  /\ \E k \in WithOutcome("Matched") :
       /\ ~Blank(OldRowOf(k)[DURATION_INDEX])
       /\ ~Blank(rows[k][DURATION_INDEX])
       /\ rows[k][DURATION_INDEX] # OldRowOf(k)[DURATION_INDEX]
       /\ sheet_values[MatchedRow(k)][DURATION_INDEX] = OldRowOf(k)[DURATION_INDEX]

\* The trimmed non-empty lines of a cell text.
TrimmedLines(text) == {Strip(u) : u \in Range(SplitOn(text, NL))} \ {Empty}

\* text is the newline-join of distinct trimmed non-empty lines in ascending order.
SortedJoin(text) ==
  LET lines == SplitOn(text, NL)
  IN  \/ text = Empty
      \/ /\ \A j \in DOMAIN lines : lines[j] # Empty /\ Strip(lines[j]) = lines[j]
         /\ \A j \in DOMAIN lines : j > 1 => TextLess(lines[j - 1], lines[j])

\* C9: on update of the URL-list column the merged value is the sorted
\* newline-join of the union of the trimmed non-empty lines of the old and
\* the new text, every old URL is kept, and a write is emitted only if the
\* merged text differs from the old value.
C9_UrlMerge ==
  \A k \in WithOutcome("Matched") :
    LET old == OldRowOf(k)[DATA18_URL_INDEX]
        new == rows[k][DATA18_URL_INDEX]
        writes == {j \in DOMAIN emitted[k].cells : emitted[k].cells[j].col = DATA18_URL_INDEX + 1}
        merged == IF writes = {} THEN old
                  ELSE emitted[k].cells[CHOOSE j \in writes : TRUE].value
    IN  /\ Cardinality(writes) <= 1
        /\ writes # {} => merged # old
        /\ SortedJoin(merged)
        /\ TrimmedLines(merged) = TrimmedLines(old) \cup TrimmedLines(new)
        /\ TrimmedLines(old) \subseteq TrimmedLines(merged)

\* A scraped URL was merged into a cell that held another URL.
C9_Witness ==
  /\ LoopOver
  /\ \E k \in WithOutcome("Matched") :
       /\ OldRowOf(k)[DATA18_URL_INDEX] = <<"a">>
       /\ rows[k][DATA18_URL_INDEX] = <<"b", " ">>
       /\ sheet_values[MatchedRow(k)][DATA18_URL_INDEX] = <<"a", NL, "b">>

PlainColumns ==
  UPDATEABLE_COLUMNS \ (PERFORMER_COLUMNS \cup {DURATION_INDEX, DATA18_URL_INDEX})
WritesTo(cells, c) == {j \in DOMAIN cells : cells[j].col = c + 1}

\* C11: on update, for an updateable column that is neither a performer
\* column, the duration column nor the URL-list column, a plain write of the
\* new value is emitted if and only if the new value differs from the old
\* one, null and the empty string counting as equal.
C11_PlainOverwrite ==
  \A k \in WithOutcome("Matched") :
    \A c \in PlainColumns :
      LET cells == emitted[k].cells
      IN  /\ (WritesTo(cells, c) # {})
               <=> (IF rows[k][c] = None THEN Empty ELSE rows[k][c])
                     # (IF OldRowOf(k)[c] = None THEN Empty ELSE OldRowOf(k)[c])
          /\ Cardinality(WritesTo(cells, c)) <= 1
          /\ \A j \in WritesTo(cells, c) :
                cells[j].value = rows[k][c] /\ cells[j].row = MatchedRow(k)

\* A matched scene whose identifier cell is rewritten, whose null file size
\* replaces a filled cell, and whose null resolution meets an empty cell.
C11_Witness ==
  /\ LoopOver
  /\ \E k \in WithOutcome("Matched") :
       /\ \E j \in WritesTo(emitted[k].cells, SCENE_ID_INDEX) :
            emitted[k].cells[j].value = rows[k][SCENE_ID_INDEX]
       /\ rows[k][14] = None /\ OldRowOf(k)[14] # Empty
       /\ WritesTo(emitted[k].cells, 14) # {}
       /\ rows[k][16] = None /\ OldRowOf(k)[16] = Empty
       /\ WritesTo(emitted[k].cells, 16) = {}


(***************************************************************************)
(* Properties of the flattener.                                            *)
(***************************************************************************)
Flattened == pc \in {"unpack", "ValueError", "appended"}
NETWORK_CELL == 6
SITE_CELL == 7

\* The display text of an entity name: alias, then title case.
ShownPlain(name) == to_title_case(apply_network_alias(name))
\* The =HYPERLINK formula that shows name and leads to url.
ShownLinked(name, url) == make_hyperlink(url, ShownPlain(name), TRUE)
\* "name, hyperlinked if it has a URL", under the --hyperlinks switch.
Shown(entity) ==
  IF hyperlinks_enabled /\ Truthy(entity.pair_url)
  THEN ShownLinked(entity.name, entity.pair_url)
  ELSE ShownPlain(entity.name)
IsFormula(cell) == Len(cell) > 0 /\ cell[1] = "="

\* The network the mapping gives for the studio name or, failing that, for
\* the name of the site (or web series).
MappedFor(name) ==
  IF name # None /\ normalize_name(name) \in DOMAIN site_to_network
  THEN site_to_network[normalize_name(name)] ELSE <<>>
ParentFor(scene) ==
  IF Truthy(MappedFor(scene.studio.name)) THEN MappedFor(scene.studio.name)
  ELSE MappedFor(IF Truthy(scene.site.name) THEN scene.site.name
                 ELSE scene.webserie.name)
SameName(a, b) == normalize_name(a) = normalize_name(IF b = None THEN <<>> ELSE b)

\* C12 as stated: the Network-cell shows, in strict priority, the Group if
\* it has a name (hyperlinked if it has a URL), else the explicit Network
\* (hyperlinked if it has a URL), else the parent network the mapping holds
\* for the studio name or, failing that, the site name, as plain text, else
\* the standalone Studio (hyperlinked if it has a URL), else nothing.
C12_NetworkCellPriority ==
  Flattened =>
    \A k \in DOMAIN raw_scenes :
      LET scene == raw_scenes[k]
      IN  flattened[k][NETWORK_CELL] =
            IF Truthy(scene.group.name) THEN Shown(scene.group)
            ELSE IF Truthy(scene.network.name) THEN Shown(scene.network)
            ELSE IF Truthy(ParentFor(scene)) THEN ShownPlain(ParentFor(scene))
            ELSE IF Truthy(scene.studio.name) THEN Shown(scene.studio)
            ELSE <<>>

\* C12, amended: the mapped network is shown, as plain text, only when its
\* normalized name differs from the studio's own; a studio that the mapping
\* sends to itself is a standalone Studio (hyperlinked if it has a URL).
C12_NetworkCellPriorityDerived ==
  Flattened =>
    \A k \in DOMAIN raw_scenes :
      LET scene == raw_scenes[k]
      IN  flattened[k][NETWORK_CELL] =
            IF Truthy(scene.group.name) THEN Shown(scene.group)
            ELSE IF Truthy(scene.network.name) THEN Shown(scene.network)
            ELSE IF /\ Truthy(ParentFor(scene))
                    /\ ~SameName(ParentFor(scene), scene.studio.name)
                 THEN ShownPlain(ParentFor(scene))
            ELSE IF Truthy(scene.studio.name) THEN Shown(scene.studio)
            ELSE <<>>

\* Hyperlinks on: a child studio with a URL under its parent network in
\* plain text, next to a self-mapped studio shown as a hyperlink, and a
\* group that wins over an explicit network.
C12_Witness ==
  /\ Flattened /\ hyperlinks_enabled /\ Len(raw_scenes) = 2
  /\ raw_scenes[1].group = NoEntity /\ raw_scenes[1].network = NoEntity
  /\ Truthy(raw_scenes[1].studio.pair_url)
  /\ Truthy(ParentFor(raw_scenes[1]))
  /\ ~SameName(ParentFor(raw_scenes[1]), raw_scenes[1].studio.name)
  /\ ~IsFormula(flattened[1][NETWORK_CELL])
  /\ flattened[1][NETWORK_CELL] = ShownPlain(ParentFor(raw_scenes[1]))
  /\ raw_scenes[2].network # NoEntity /\ Truthy(raw_scenes[2].group.pair_url)
  /\ flattened[2][NETWORK_CELL]
       = ShownLinked(raw_scenes[2].group.name, raw_scenes[2].group.pair_url)


\* C13 as stated: the Site-cell shows the Studio (hyperlinked if the Studio
\* has a URL) when a Group is present and a Studio name exists, else the
\* Studio likewise when its normalized name is a key of the mapping, else
\* the Site or Webserie name (hyperlinked if it has a URL), else nothing.
C13_SiteCellPriority ==
  Flattened =>
    \A k \in DOMAIN raw_scenes :
      LET scene == raw_scenes[k]
      IN  flattened[k][SITE_CELL] =
            IF Truthy(scene.group.name) /\ Truthy(scene.studio.name)
            THEN Shown(scene.studio)
            ELSE IF /\ Truthy(scene.studio.name)
                    /\ normalize_name(scene.studio.name) \in DOMAIN site_to_network
            THEN Shown(scene.studio)
            ELSE IF Truthy(scene.site.name) THEN Shown(scene.site)
            ELSE IF Truthy(scene.webserie.name) THEN Shown(scene.webserie)
            ELSE <<>>

\* C14 as stated: for every scene with a Group and a URL on it, the
\* Network-cell is a hyperlink to the Group URL and the Site-cell shows the
\* Studio name, hyperlinked if and only if the Studio has a URL.
C14_GroupWithUrl ==
  Flattened =>
    \A k \in DOMAIN raw_scenes :
      LET scene == raw_scenes[k]
      IN  (Truthy(scene.group.name) /\ Truthy(scene.group.pair_url)) =>
            /\ flattened[k][NETWORK_CELL] = Shown(scene.group)
            /\ flattened[k][SITE_CELL] = Shown(scene.studio)

\* C14, amended: the same for every such scene that has a Studio name.
C14_GroupWithUrlAndStudio ==
  Flattened =>
    \A k \in DOMAIN raw_scenes :
      LET scene == raw_scenes[k]
      IN  (/\ Truthy(scene.group.name) /\ Truthy(scene.group.pair_url)
           /\ Truthy(scene.studio.name)) =>
            /\ flattened[k][NETWORK_CELL] = Shown(scene.group)
            /\ hyperlinks_enabled =>
                  /\ IsFormula(flattened[k][NETWORK_CELL])
                  /\ IsFormula(flattened[k][SITE_CELL])
                        <=> Truthy(scene.studio.pair_url)
            /\ flattened[k][SITE_CELL] = Shown(scene.studio)

\* Hyperlinks on: a group with a URL over a studio with a URL, next to the
\* same group over a studio without one.
C14_Witness ==
  /\ Flattened /\ hyperlinks_enabled /\ Len(raw_scenes) = 2
  /\ Truthy(raw_scenes[1].group.pair_url) /\ Truthy(raw_scenes[1].studio.pair_url)
  /\ IsFormula(flattened[1][NETWORK_CELL]) /\ IsFormula(flattened[1][SITE_CELL])
  /\ raw_scenes[2].group = raw_scenes[1].group
  /\ Truthy(raw_scenes[2].studio.name) /\ ~Truthy(raw_scenes[2].studio.pair_url)
  /\ IsFormula(flattened[2][NETWORK_CELL]) /\ ~IsFormula(flattened[2][SITE_CELL])

\* C15 as stated: for every scene with no Group, no Network and a Studio
\* whose normalized name is a key of the mapping, the Network-cell is the
\* mapped network name as plain text, whatever URLs there are.
C15_MappedStudioPlain ==
  Flattened =>
    \A k \in DOMAIN raw_scenes :
      LET scene == raw_scenes[k]
      IN  (/\ ~Truthy(scene.group.name) /\ ~Truthy(scene.network.name)
           /\ Truthy(scene.studio.name)
           /\ normalize_name(scene.studio.name) \in DOMAIN site_to_network) =>
            /\ flattened[k][NETWORK_CELL] = ShownPlain(MappedFor(scene.studio.name))
            /\ ~IsFormula(flattened[k][NETWORK_CELL])

\* C15, amended: the same for every such scene whose mapped network's
\* normalized name differs from the Studio's own.
C15_ChildStudioPlain ==
  Flattened =>
    \A k \in DOMAIN raw_scenes :
      LET scene == raw_scenes[k]
      IN  (/\ ~Truthy(scene.group.name) /\ ~Truthy(scene.network.name)
           /\ Truthy(scene.studio.name)
           /\ normalize_name(scene.studio.name) \in DOMAIN site_to_network
           /\ ~SameName(MappedFor(scene.studio.name), scene.studio.name)) =>
            /\ flattened[k][NETWORK_CELL] = ShownPlain(MappedFor(scene.studio.name))
            /\ ~IsFormula(flattened[k][NETWORK_CELL])

\* Hyperlinks on: a child studio that has a URL, on a site that has one.
C15_Witness ==
  /\ Flattened /\ hyperlinks_enabled
  /\ raw_scenes[1].group = NoEntity /\ raw_scenes[1].network = NoEntity
  /\ Truthy(raw_scenes[1].studio.pair_url) /\ Truthy(raw_scenes[1].site.pair_url)
  /\ normalize_name(raw_scenes[1].studio.name) \in DOMAIN site_to_network
  /\ ~SameName(MappedFor(raw_scenes[1].studio.name), raw_scenes[1].studio.name)
  /\ ~IsFormula(flattened[1][NETWORK_CELL])
  /\ IsFormula(flattened[1][SITE_CELL])


\* The entity the priority of column G selects: its name and its URL.  A
\* network derived from the mapping has no URL.
Selected(scene) ==
  IF Truthy(scene.group.name) THEN scene.group
  ELSE IF Truthy(scene.network.name) THEN scene.network
  ELSE IF /\ Truthy(ParentFor(scene))
          /\ ~SameName(ParentFor(scene), scene.studio.name)
       THEN Entity(ParentFor(scene), None)
  ELSE IF Truthy(scene.studio.name) THEN scene.studio
  ELSE NoEntity

\* Two scenes that differ at most in the URL of the site and the web series.
SameButSiteUrl(a, b) ==
  /\ [a EXCEPT !.site.pair_url = None, !.webserie.pair_url = None]
       = [b EXCEPT !.site.pair_url = None, !.webserie.pair_url = None]

\* C16: the Network-cell's hyperlink decision does not depend on the
\* Site-cell's.  Two scenes of one file (same mapping, same switch) that
\* agree on the entity selected for the Network-cell, name and URL, get the
\* same Network-cell, and changing only the site or webserie URL of a scene
\* never changes its Network-cell.
C16_NetworkCellIndependent ==
  (Flattened /\ Len(raw_scenes) = 2) =>
    /\ Selected(raw_scenes[1]) = Selected(raw_scenes[2])
         => flattened[1][NETWORK_CELL] = flattened[2][NETWORK_CELL]
    /\ SameButSiteUrl(raw_scenes[1], raw_scenes[2])
         => flattened[1][NETWORK_CELL] = flattened[2][NETWORK_CELL]

\* Hyperlinks on: the same group without a URL over a site with a URL and
\* over the same site without one; the Site-cells differ, the Network-cells
\* are the same plain text.
C16_Witness ==
  /\ Flattened /\ hyperlinks_enabled /\ Len(raw_scenes) = 2
  /\ raw_scenes[1] # raw_scenes[2]
  /\ SameButSiteUrl(raw_scenes[1], raw_scenes[2])
  /\ Truthy(raw_scenes[1].group.name) /\ ~Truthy(raw_scenes[1].group.pair_url)
  /\ IsFormula(flattened[1][SITE_CELL]) /\ ~IsFormula(flattened[2][SITE_CELL])
  /\ flattened[1][NETWORK_CELL] = flattened[2][NETWORK_CELL]
  /\ ~IsFormula(flattened[1][NETWORK_CELL])


MALE_CELL == 4
FEMALE_CELL == 5

\* The lines of a performer cell; an empty cell has none.
CellLines(cell) == IF cell = <<>> THEN <<>> ELSE SplitOn(cell, NL)

\* What C17 expects of one performer: the display "name {count}", the
\* count "1" when absent, name and count trimmed and single-spaced; male
\* when the normalized name is in the male set, tested first; otherwise in
\* the female/trans list, with " (Trans)" when it is in the trans set.
NameOf(performer) == IF Truthy(performer.name) THEN performer.name ELSE <<>>
CountOf(performer) ==
  IF Truthy(performer.scenes_count) THEN performer.scenes_count ELSE <<"1">>
ExpectedDisplay(performer) ==
  normalize_whitespace(NameOf(performer) \o <<" ", "{">>
                       \o Strip(CountOf(performer)) \o <<"}">>)
InMaleSet(performer) == normalize_name(NameOf(performer)) \in male_performers
InTransSet(performer) == normalize_name(NameOf(performer)) \in trans_performers
ExpectedLine(performer) ==
  IF ~InMaleSet(performer) /\ InTransSet(performer)
  THEN ExpectedDisplay(performer) \o <<" ", "(", "T", "r", "a", "n", "s", ")">>
  ELSE ExpectedDisplay(performer)

\* C17: every performer appears exactly once, in exactly one of the two
\* performer cells: in the male list if its normalized name is in the male
\* set (tested first), otherwise in the female/trans list, suffixed
\* " (Trans)" if it is in the trans set; the display is "name {count}" with
\* count "1" when absent, and the order in each list is the scene order.
C17_PerformerPartition ==
  Flattened =>
    \A s \in DOMAIN raw_scenes :
      LET performers == raw_scenes[s].performers
          males == CellLines(flattened[s][MALE_CELL])
          females == CellLines(flattened[s][FEMALE_CELL])
          Before(k) == {j \in 1..k : InMaleSet(performers[j]) = InMaleSet(performers[k])}
      IN  /\ Len(males) + Len(females) = Len(performers)
          /\ Len(males) = Cardinality({k \in DOMAIN performers : InMaleSet(performers[k])})
          /\ \A k \in DOMAIN performers :
                IF InMaleSet(performers[k])
                THEN males[Cardinality(Before(k))] = ExpectedLine(performers[k])
                ELSE females[Cardinality(Before(k))] = ExpectedLine(performers[k])

\* Two performers of one scene: the first in the male and the trans set,
\* without a count; the second only in the trans set.
C17_Witness ==
  /\ Flattened
  /\ Len(raw_scenes[1].performers) = 2
  /\ InMaleSet(raw_scenes[1].performers[1]) /\ InTransSet(raw_scenes[1].performers[1])
  /\ ~InMaleSet(raw_scenes[1].performers[2]) /\ InTransSet(raw_scenes[1].performers[2])
  /\ ~Truthy(raw_scenes[1].performers[2].scenes_count)
  /\ flattened[1][MALE_CELL] = ExpectedDisplay(raw_scenes[1].performers[1])
  /\ flattened[1][FEMALE_CELL] = ExpectedDisplay(raw_scenes[1].performers[2]) \o <<" ", "(", "T", "r", "a", "n", "s", ")">>


\* C18: flatten_scene_to_row returns a pair (row, performer-URL map) whose
\* map holds an entry normalized name -> URL for every performer that has a
\* profile URL, in whichever list the performer is put, and the caller
\* takes the pair apart to build its rich-text requests from that map.
C18_ReturnsRowAndLinks ==
  /\ pc # "ValueError"
  /\ Flattened =>
       \A s \in DOMAIN raw_scenes :
         /\ Width(flattened[s]) = 2
         /\ \A k \in DOMAIN raw_scenes[s].performers :
              LET performer == raw_scenes[s].performers[k]
                  links == flattened[s][1]
              IN  Truthy(performer.pair_url) =>
                    /\ normalize_name(NameOf(performer)) \in DOMAIN links
                    /\ links[normalize_name(NameOf(performer))] = performer.pair_url


(***************************************************************************)
(* Properties of convert_duration.                                         *)
(***************************************************************************)
Converted == pc = "returned" /\ call.fn = "convert_duration" /\ call.duration # None

\* The components of a converted duration, read back from the text.
DurationComponents(out) ==
  IF out = <<>> THEN <<>>
  ELSE LET parts == SplitOn(out, ",")
       IN  [k \in 1..Len(parts) |-> SplitOn(Strip(parts[k]), " ")]
UnitRank(unit) ==
  CASE unit = <<"h", "r">> -> 1
    [] unit = <<"m", "i", "n">> -> 2
    [] unit = <<"s", "e", "c">> -> 3
    [] OTHER -> 0
\* "N unit" components joined by ", ", the units in the order hr, min, sec,
\* every N a number that is not zero.
WellFormedDuration(out) ==
  LET comps == DurationComponents(out)
  IN  /\ \A k \in DOMAIN comps :
            /\ Len(comps[k]) = 2
            /\ comps[k][1] # <<>>
            /\ \A j \in DOMAIN comps[k][1] : comps[k][1][j] \in Digits
            /\ comps[k][1][1] # "0"
            /\ UnitRank(comps[k][2]) > 0
      /\ \A j, k \in DOMAIN comps : j < k => UnitRank(comps[j][2]) < UnitRank(comps[k][2])
      /\ out = JoinText([k \in DOMAIN comps |-> comps[k][1] \o <<" ">> \o comps[k][2]],
                        <<",", " ">>)
\* The amount the converted duration gives for a unit, 0 if it has none.
Amount(out, rank) ==
  LET comps == DurationComponents(out)
  IN  IF \E k \in DOMAIN comps : UnitRank(comps[k][2]) = rank
      THEN IntOf[comps[CHOOSE k \in DOMAIN comps : UnitRank(comps[k][2]) = rank][1]]
      ELSE 0

\* What C19 says of the clock text d and its conversion out.
ClockConverted(d, out) ==
  LET parts == SplitOn(d, ":")
      n == [k \in DOMAIN parts |-> IntOf[parts[k]]]
  IN  /\ WellFormedDuration(out)
      /\ IF Len(parts) = 3
         THEN /\ Amount(out, 1) = n[1]
              /\ Amount(out, 2) = n[2]
              /\ Amount(out, 3) = n[3]
         ELSE /\ Amount(out, 1) = n[1] \div 60
              /\ Amount(out, 2) = n[1] % 60
              /\ Amount(out, 3) = n[2]
              /\ 3600 * Amount(out, 1) + 60 * Amount(out, 2) + Amount(out, 3)
                   = 60 * n[1] + n[2]
DurationExamples(d, out) ==
  /\ d = <<"5", ":", "0", "9">> => out = <<"5", " ", "m", "i", "n", ",", " ", "9", " ", "s", "e", "c">>
  /\ d = <<"1", ":", "0", "2", ":", "0", "3">> => out = <<"1", " ", "h", "r", ",", " ", "2", " ", "m", "i", "n", ",", " ", "3", " ", "s", "e", "c">>
  /\ d = <<"0", ":", "4", "5">> => out = <<"4", "5", " ", "s", "e", "c">>

\* C19 as stated: on a numeric "M:SS" or "H:MM:SS" string convert_duration
\* returns the comma-joined non-zero components in the order hr, min, sec,
\* M:SS with M >= 60 split into M div 60 hr and M mod 60 min so that the
\* total seconds are kept; a string of neither form that contains no unit
\* word is returned unchanged.
C19_ConvertDuration ==
  Converted =>
    /\ IsClockText(call.duration) => ClockConverted(call.duration, returned)
    /\ DurationExamples(call.duration, returned)
    /\ (~IsClockText(call.duration) /\ ~HasUnitWord(call.duration))
         => returned = call.duration

\* C19, amended: the input is taken with its surrounding whitespace
\* stripped, both to recognise the two forms and in what is passed through.
C19_ConvertDurationStripped ==
  Converted =>
    LET d == Strip(call.duration)
    IN  /\ IsClockText(d) => ClockConverted(d, returned)
        /\ DurationExamples(d, returned)
        /\ (~IsClockText(d) /\ ~HasUnitWord(d)) => returned = d

\* "125:09" became "2 hr, 5 min, 9 sec".
C19_Witness ==
  /\ Converted
  /\ call.duration = <<"1", "2", "5", ":", "0", "9">>
  /\ returned = <<"2", " ", "h", "r", ",", " ", "5", " ", "m", "i", "n", ",", " ", "9", " ", "s", "e", "c">>


(***************************************************************************)
(* Properties of merge_urls.                                               *)
(***************************************************************************)
\* C20: merge_urls of a cell value with itself returns that value's lines
\* sorted, deduplicated and newline-joined, and merging is idempotent:
\* merge_urls(merge_urls(a, b), b) = merge_urls(a, b) for all a and b, so
\* that merging the same scraped URL into the merged cell emits no write.
C20_MergeIdempotent ==
  /\ (pc \in {"merged", "merged again"} /\ call.old = call.new) =>
       /\ SortedJoin(returned[1])
       /\ TrimmedLines(returned[1]) = TrimmedLines(Str(call.old))
  /\ pc = "merged again" =>
       /\ returned[2] = returned[1]
       /\ UpdateCellsFor(DATA18_URL_INDEX, 2, call.new, returned[1]) = <<>>

\* Two unsorted URL lists were merged, and merged again with the second
\* list: the cell holds three sorted lines and did not change.
C20_Witness ==
  /\ pc = "merged again"
  /\ call.old = <<"b", NL, " ", "a">>
  /\ call.new = <<"c", NL, NL, "b">>
  /\ returned = <<<<"a", NL, "b", NL, "c">>, <<"a", NL, "b", NL, "c">>>>


(***************************************************************************)
(* C21: the display text of an entity name is the name, replaced by its    *)
(* alias when the trimmed name matches an alias whatever its case, with    *)
(* the question marks removed and then, token by token: a token with a     *)
(* digit, an all-uppercase token and a mixed-case token unchanged, a fully *)
(* lowercase token title-cased.  "VR UHD Scene" is unchanged and "the      *)
(* GREAT escape" becomes "The GREAT Escape"; title-casing the display text *)
(* again changes nothing.                                                  *)
(***************************************************************************)
HasDigit(token) == \E k \in DOMAIN token : token[k] \in Digits
HasUpper(token) == \E k \in DOMAIN token : token[k] \in UpperLetters
HasLower(token) == \E k \in DOMAIN token : token[k] \in LowerLetters

\* The first letter of every run of letters raised.
Capitalized(token) ==
  [k \in DOMAIN token |->
     IF token[k] \in LowerLetters
        /\ (k = 1 \/ token[k - 1] \notin (LowerLetters \cup UpperLetters))
     THEN UpperAlphabet[LetterIndex(token[k], LowerAlphabet)] ELSE token[k]]

ExpectedToken(token) ==
  IF HasDigit(token) \/ (HasUpper(token) /\ ~HasLower(token))
     \/ (HasUpper(token) /\ HasLower(token))
  THEN token
  ELSE Capitalized(token)

Aliased(name) ==
  IF \E raw \in DOMAIN NETWORK_DISPLAY_ALIASES : LowerText(Strip(name)) = raw
  THEN NETWORK_DISPLAY_ALIASES[LowerText(Strip(name))]
  ELSE name

ExpectedTitle(name) ==
  LET tokens == SplitWords(RemoveChars(name, {"?"}))
  IN  Join([k \in 1..Len(tokens) |-> ExpectedToken(tokens[k])], " ")

C21_DisplayText ==
  pc \in {"displayed", "titled again"} =>
    /\ returned[1] = ExpectedTitle(Aliased(call.name))
    /\ call.name = <<"V", "R", " ", "U", "H", "D", " ", "S", "c", "e", "n", "e">> => returned[1] = call.name
    /\ call.name = <<"t", "h", "e", " ", "G", "R", "E", "A", "T", " ", "e", "s", "c", "a", "p", "e">> => returned[1] = <<"T", "h", "e", " ", "G", "R", "E", "A", "T", " ", "E", "s", "c", "a", "p", "e">>
    /\ pc = "titled again" => returned[2] = returned[1]

\* A name of a lowercase and an uppercase token has been displayed and
\* title-cased again, and so has a name the alias table replaces.
C21_Witness ==
  /\ pc = "titled again"
  /\ \/ call.name = <<"v", "r", " ", "V", "R">> /\ returned[1] = <<"V", "r", " ", "V", "R">>
     \/ call.name = <<" ", "G", "i", "r", "l", "s", "W", "a", "y", " ">> /\ returned[1] = <<"A", "d", "u", "l", "t", " ", "T", "i", "m", "e", " ", "-", " ", "G", "i", "r", "l", "s", "w", "a", "y">>


(***************************************************************************)
(* C22: a sheet row is in the free-template list if and only if every      *)
(* column outside the allow-list (identifier 0, banner 9, save-flag 11,    *)
(* quality 13, label 23) is empty after trimming; a row with a non-empty   *)
(* scene identifier in column 2 is never in the list.                      *)
(***************************************************************************)
AllowList == {0, 9, 11, 13, 23}

EmptyOutsideAllowList(row) ==
  \A c \in DOMAIN row \ AllowList : Strip(row[c]) = <<>>

ReportedFree(rnum) == \E k \in DOMAIN free_rows : free_rows[k] = rnum

C22_FreeTemplateRows ==
  pc = "loop" =>
    /\ \A k \in DOMAIN free_rows : free_rows[k] \in RowNumbers(existing_rows)
    /\ \A rnum \in RowNumbers(existing_rows) :
         /\ ReportedFree(rnum) <=> EmptyOutsideAllowList(sheet_values[rnum])
         /\ norm_scene_id(sheet_values[rnum][SCENE_ID_INDEX]) # <<>> => ~ReportedFree(rnum)

\* A row with filled allowed columns and whitespace elsewhere is reported
\* free, next to a row that is not reported because of its trailer URL.
C22_Witness ==
  /\ pc = "loop"
  /\ \E rnum, other \in RowNumbers(existing_rows) :
       /\ sheet_values[rnum] = PaddedRow
       /\ ReportedFree(rnum)
       /\ sheet_values[other] = TrailerOnlyRow
       /\ ~ReportedFree(other)


(***************************************************************************)
(* C23: build_sceneid_index maps each non-empty normalized scene           *)
(* identifier of the sheet to the 1-based number of a row that holds it,   *)
(* the k-th data row (k from 0) being row k + 2 and the last of several    *)
(* rows with one identifier being kept; rows with an empty identifier are  *)
(* not indexed; and a matched candidate is diffed against the very row the *)
(* index points to.                                                        *)
(***************************************************************************)
SheetSid(rnum) == norm_scene_id(sheet_values[rnum][SCENE_ID_INDEX])

DataRowNumbers == {k + 2 : k \in 0..(Len(sheet_values) - 2)}

C23_SceneIdIndex ==
  pc = "loop" =>
    /\ DOMAIN scene_index = {SheetSid(rnum) : rnum \in DataRowNumbers} \ {<<>>}
    /\ \A s \in DOMAIN scene_index :
         /\ scene_index[s] \in DataRowNumbers
         /\ SheetSid(scene_index[s]) = s
         /\ \A rnum \in DataRowNumbers : SheetSid(rnum) = s => rnum <= scene_index[s]
    /\ \A k \in Candidates :
         outcome[k] = "Matched" =>
           LET rnum == scene_index[SidOf(k)]
           IN  /\ emitted[k].cells =
                    update_existing_row_cells(0, rnum, rows[k],
                                              PadRow(sheet_values[rnum], MAX_COLS),
                                              UPDATEABLE_COLUMNS)
               /\ CellRows(emitted[k].cells) \cup RichRows(emitted[k].rich) \subseteq {rnum}

\* Two rows hold one identifier, in different spellings; the index points
\* to the second, and a candidate was diffed against it.
C23_Witness ==
  /\ pc = "loop"
  /\ Tail(sheet_values) = <<OccupiedA, OccupiedAEdited>>
  /\ scene_index = (SidA :> 3)
  /\ outcome = <<"Matched">>
  /\ emitted[1].cells # <<>>


(***************************************************************************)
(* C24: the sheet starting with unique identifiers among its occupied      *)
(* rows, no sequence of runs makes two rows carry the same non-empty scene *)
(* identifier, whatever the scraped source contains.                       *)
(***************************************************************************)
C24_UniqueIdentifiers == UniqueIds(Tail(sheet_values))


(***************************************************************************)
(* C25: flatten_scene_to_row does not end in an error for a scene whose    *)
(* group, network, studio, site, webserie, details or performers field,    *)
(* or a sub-field of them, is missing or null; the missing part is treated *)
(* as absent and its cell is empty or defaulted.                           *)
(***************************************************************************)
Absent(field) == field.json \in {"missing", "null"}

C25_MissingTreatedAsAbsent ==
  /\ pc # "AttributeError"
  /\ pc \in {"unpack", "ValueError"} =>
       LET scene == raw_scenes[1]
           row   == flattened[1]
       IN  /\ (\A key \in {"group", "network", "studio", "site", "webserie"} :
                 Absent(scene[key]))
                => (row[NETWORK_CELL] = <<>> /\ row[SITE_CELL] = <<>>)
           /\ Absent(scene.performers) => (row[MALE_CELL] = <<>> /\ row[FEMALE_CELL] = <<>>)
           /\ Absent(scene.details) => row[DURATION_INDEX] = <<>>


(***************************************************************************)
(* C26: a candidate inserted into a free template row in one run is, in    *)
(* the next run over the resulting sheet and the same scraped source,      *)
(* classified as matched and consumes no further free row; for every       *)
(* candidate the number of sheet rows that carry it never grows once a row *)
(* carries it.                                                             *)
(***************************************************************************)
\* The index the next run builds from the sheet as it is now.
NextIndex == build_sceneid_index(normalize_rows(sheet_values))

\* The sheet rows that hold the cells an insertion of candidate k writes.
Carriers(values, k) ==
  {rnum \in 2..Len(values) :
     \A c \in 0..(MAX_COLS - 1) :
       (c # INSERT_SKIP_INDEX /\ rows[k][c] # None) => values[rnum][c] = rows[k][c]}

C26_InsertedOnce ==
  /\ [](LoopOver =>
          \A k \in Candidates : outcome[k] = "Inserted" => SidOf(k) \in DOMAIN NextIndex)
  /\ [][ \A k \in Candidates :
           Carriers(sheet_values, k) # {}
             => Cardinality(Carriers(sheet_values', k))
                  <= Cardinality(Carriers(sheet_values, k)) ]_vars


(***************************************************************************)
(* C27: within one run the rows named by the index and the rows of the     *)
(* free-template list are disjoint and each free row is handed out at most *)
(* once: no free row receives insert writes from two candidates, and no    *)
(* row receives both update writes and insert writes.                      *)
(***************************************************************************)
WrittenRows(k) == CellRows(emitted[k].cells) \cup RichRows(emitted[k].rich)

C27_FreeRowsDisjoint ==
  LoopOver =>
    /\ Range(scene_index) \cap Range(free_rows) = {}
    /\ \A j, k \in DOMAIN free_rows : j # k => free_rows[j] # free_rows[k]
    /\ \A j, k \in Candidates :
         (j # k /\ outcome[j] = "Inserted" /\ outcome[k] = "Inserted")
           => WrittenRows(j) \cap WrittenRows(k) = {}
    /\ \A j, k \in Candidates :
         (outcome[j] = "Matched" /\ outcome[k] = "Inserted")
           => WrittenRows(j) \cap WrittenRows(k) = {}

\* One run updated a row for one candidate and filled the only free row
\* for another.
C27_Witness ==
  /\ LoopOver
  /\ Len(free_rows) = 1
  /\ \E j, k \in Candidates :
       /\ outcome[j] = "Matched" /\ emitted[j].cells # <<>>
       /\ outcome[k] = "Inserted" /\ emitted[k].cells # <<>>


(***************************************************************************)
(* C28: the free-template list is in ascending row order and the k-th      *)
(* unmatched candidate, in scraped order, gets its k-th row; the dropped   *)
(* candidates are exactly the unmatched ones after the first F, F being    *)
(* the length of the list, and a matched candidate is updated whether or   *)
(* not a candidate before it was dropped.                                  *)
(***************************************************************************)
\* The place of candidate k among the unmatched candidates.
UnmatchedRank(k) == Cardinality({j \in Unmatched : j <= k})

C28_InsertionOrder ==
  LoopOver =>
    /\ \A j, k \in DOMAIN free_rows : j < k => free_rows[j] < free_rows[k]
    /\ \A k \in Unmatched :
         IF UnmatchedRank(k) <= Len(free_rows)
         THEN /\ outcome[k] = "Inserted"
              /\ CellRows(emitted[k].cells) = {free_rows[UnmatchedRank(k)]}
         ELSE /\ outcome[k] = "Dropped"
              /\ emitted[k] = NoRequests
    /\ WithOutcome("Dropped") = {k \in Unmatched : UnmatchedRank(k) > Len(free_rows)}
    /\ \A k \in Candidates \ Unmatched :
         /\ outcome[k] = "Matched"
         /\ WrittenRows(k) \subseteq {MatchedRow(k)}

\* Two unmatched candidates were placed into the two free rows in order.
C28_Witness ==
  /\ LoopOver
  /\ free_rows = <<2, 3>>
  /\ outcome = <<"Inserted", "Inserted">>
  /\ CellRows(emitted[1].cells) = {2}
  /\ CellRows(emitted[2].cells) = {3}


RichTo(reqs, c) == {j \in DOMAIN reqs : reqs[j].columnIndex = c}

\* The candidates other than k whose requests address the row rnum.
OthersWriting(k, rnum) == {j \in Candidates \ {k} : rnum \in WrittenRows(j)}

C30_EmptyPerformerList ==
  \A k \in WithOutcome("Matched") :
    \A c \in PERFORMER_COLUMNS :
      rows[k][c] = <<>> =>
        LET cells == emitted[k].cells
            old   == OldRowOf(k)[c]
        IN  /\ RichTo(emitted[k].rich, c) = {}
            /\ old = <<>> => WritesTo(cells, c) = {}
            /\ old # <<>> =>
                 /\ Cardinality(WritesTo(cells, c)) = 1
                 /\ \A j \in WritesTo(cells, c) :
                      cells[j].value = <<>> /\ cells[j].row = MatchedRow(k)
                 /\ (LoopOver /\ OthersWriting(k, MatchedRow(k)) = {})
                      => sheet_values[MatchedRow(k)][c] = <<>>

\* A matched scene without performers met a row with a male list and an
\* empty female list; the run has ended and the male list is cleared.
C30_Witness ==
  /\ LoopOver
  /\ \E k \in WithOutcome("Matched") :
       /\ rows[k][MALE_CELL] = <<>> /\ rows[k][FEMALE_CELL] = <<>>
       /\ OldRowOf(k)[MALE_CELL] = PerfA /\ OldRowOf(k)[FEMALE_CELL] = <<>>
       /\ WritesTo(emitted[k].cells, MALE_CELL) # {}
       /\ sheet_values[MatchedRow(k)][MALE_CELL] = <<>>

====
